---- MODULE Spec2Model ----
(***************************************************************************)
(* Session/runner orchestration of the cody backend:                       *)
(*   sessions/store.py     SessionStore   (in-memory registry + SQLite)     *)
(*   sessions/service.py   SessionService                                   *)
(*   websocket/manager.py  ConnectionManager                                *)
(*   websocket/handler.py  WebSocketHandler (router, runner registry)       *)
(*   claude/runner.py      ClaudeRunner   (one run of the engine)           *)
(*                                                                         *)
(* Scheduling is asyncio: one task per connection, one task per run.  A    *)
(* command handler is one action; a run task takes one action per engine   *)
(* event, so commands interleave with the steps of every run.  Database    *)
(* statements go through aiosqlite's single FIFO worker, so a statement    *)
(* takes effect, for every later statement, when it is issued.             *)
(***************************************************************************)
EXTENDS Integers, Sequences, FiniteSets, TLC

\* ------------------------------------------------------------------ bounds
MaxSessions == 1      \* session ids ever created (uuid4, never reused)
MaxRuns     == 2      \* ClaudeRunner objects ever created
MaxRequests == 1      \* tool_use_ids ever generated (uuid4, never reused)
MaxEvents   == 1      \* non-terminal engine events per run
MaxConns    == 2      \* websocket connections
MaxRows     == 3      \* rows of one session written through the store's own interface
MaxClock    == 1      \* wall-clock readings 0..MaxClock (ms)
MaxPairSessions == 2  \* session ids ever created where two sessions run side by side
MaxPairRequests == 2  \* tool_use_ids ever generated there
MaxBoots == 2         \* times the store is initialized

Sids  == 1..MaxSessions
Rids  == 1..MaxRuns
Tids  == 1..MaxRequests
Conns == 1..MaxConns
PairSids == 1..MaxPairSessions
PairTids == 1..MaxPairRequests

None    == "None"                    \* Python None
Titles  == {"T"}
StartPrompts    == {"p1"}        \* prompts of session.start
ContinuePrompts == {"p2"}        \* prompts of session.continue
Handles == {"h1"}                    \* resume handles the engine issues
ResumeHandles == {"h1", "h2", None}  \* session ids an init message may carry

\* SessionStatus (sessions/models.py)
IDLE      == "idle"
RUNNING   == "running"
COMPLETED == "completed"
ERROR     == "error"

\* messages of the handler and the runner
NoSessionMsg  == "Session no longer exists."
NoResumeMsg   == "Session has no resume id yet."
AbortedMsg    == "Session aborted"
EngineFault   == "engine fault"      \* str(e) of an exception raised in _execute

\* results a client can send in permission.response
ClientResults == { [behavior |-> "allow", message |-> None],
                   [behavior |-> "deny",  message |-> None] }
AbortDeny     == [behavior |-> "deny", message |-> AbortedMsg]

\* future states: an asyncio.Future is pending, cancelled, or holds a result
PENDING   == [behavior |-> "pending",   message |-> None]
CANCELLED == [behavior |-> "cancelled", message |-> None]
NOFUTURE  == [behavior |-> "nofuture",  message |-> None]
\* set_result on a future that is already done raises InvalidStateError
INVALID   == [behavior |-> "InvalidStateError", message |-> None]

VARIABLES
  sessions,             \* SessionStore._sessions : id -> Session
  db_sessions,          \* table sessions         : id -> row
  db_messages,          \* table messages : session id -> its rows, in insertion order
  connections,          \* ConnectionManager._connections
  runners,              \* WebSocketHandler._runners : session id -> runner
  pending_permissions,  \* WebSocketHandler._pending_permissions, as <<sid, tid>>
  run,                  \* the ClaudeRunner objects and their tasks
  request,              \* the approval requests (one per tool_use_id)
  sid_seq,              \* session ids generated so far (uuid4 is fresh)
  out,                  \* events handed to the broadcaster by the last step
  sent,                 \* the broadcasts of the last step: who received each event
  dropped,              \* what the last step refused: events _emit dropped
                        \* (deleted session), texts the router dropped
  broken,               \* registered sockets on which send_text now raises
  clock,                \* the wall clock, in ms: int(time.time() * 1000)
  db,                   \* SessionStore._db is set (initialize has run, close has not)
  raised,               \* the exception the last step's store call raised
  boots,                \* how many times initialize has opened the database
  terminal,             \* per run: the completed/error session.status events
                        \* it has had broadcast so far (2 stands for "several")
  flight,               \* the coroutines that are suspended inside a handler or
                        \* a callback: cmd[c] for connection c's command, cb[r]
                        \* for the callback run r is in
  told_deleted          \* ids whose session.deleted a handler running step by
                        \* step has broadcast

vars == << sessions, db_sessions, db_messages, connections, runners,
           pending_permissions, run, request, sid_seq, out, sent, dropped,
           broken, clock, db, raised, boots, terminal, flight,
           told_deleted >>

\* ------------------------------------------------------------ dict helpers
Put(d, k, v) == [x \in DOMAIN d \cup {k} |-> IF x = k THEN v ELSE d[x]]
Pop(d, k)    == [x \in DOMAIN d \ {k} |-> d[x]]

\* ---------------------------------------------------------------- events
\* ServerEvent (websocket/events.py).  `by` is the run whose callback emitted
\* the event (0 for an event emitted by a command handler).
Event(type, sid, status, body, by) ==
  [type |-> type, session_id |-> sid, status |-> status, body |-> body, by |-> by]

StatusEvent(sid, status, error, by) == Event("session.status", sid, status, error, by)
MessageEvent(sid, message, by)      == Event("stream.message", sid, None, message, by)
UserPromptEvent(sid, prompt)        == Event("stream.user_prompt", sid, None, prompt, 0)
DeletedEvent(sid)                   == Event("session.deleted", sid, None, None, 0)
RunnerErrorEvent(sid, message)      == Event("runner.error", sid, None, message, 0)
PermissionRequestEvent(sid, tid, by) == Event("permission.request", sid, None, tid, by)
ListEvent(rows)                     == Event("session.list", 0, None, rows, 0)
HistoryEvent(sid, status, messages) == Event("session.history", sid, status, messages, 0)

\* ------------------------------------------------------------ SessionStore
\* The store as one value, so a handler can thread it through its calls.
\* `raised` is the exception a call has raised (None: it returned).
Store == [sessions |-> sessions, db_sessions |-> db_sessions,
          db_messages |-> db_messages, db |-> db, raised |-> None,
          boots |-> boots]

\* raise RuntimeError("SessionStore not initialized")
NotInitialized == "SessionStore not initialized"
Raise(st, exc) == [st EXCEPT !.raised = exc]

NewSession(title, cwd, allowed_tools, prompt) ==
  [title |-> title, claude_session_id |-> None, status |-> IDLE, cwd |-> cwd,
   allowed_tools |-> allowed_tools, last_prompt |-> prompt]

\* create_session that registers the session in memory and inserts no row
create_session_memory_only(st, sid, title, cwd, allowed_tools, prompt) ==
  [st EXCEPT !.sessions = Put(@, sid, NewSession(title, cwd, allowed_tools, prompt))]

\* SessionStore.create_session: raises before anything else when _db is unset
create_session(st, sid, title, cwd, allowed_tools, prompt) ==
  LET s == NewSession(title, cwd, allowed_tools, prompt)
  IN  IF ~st.db
      THEN Raise(st, NotInitialized)
      ELSE [st EXCEPT !.sessions = Put(@, sid, s), !.db_sessions = Put(@, sid, s)]

\* `updates` is a dict field -> value: fields it names are overwritten
Merge(rec, updates) ==
  [f \in DOMAIN rec |-> IF f \in DOMAIN updates THEN updates[f] ELSE rec[f]]

\* _persist_session whose column_map knows only the status column
persist_session_status_only(st, sid, updates) ==
  IF sid \in DOMAIN st.db_sessions /\ "status" \in DOMAIN updates
  THEN [st EXCEPT !.db_sessions[sid].status = updates.status]
  ELSE st

\* SessionStore._persist_session: returns at once when _db is unset,
\* otherwise UPDATE sessions SET ... WHERE id = ?
persist_session(st, sid, updates) ==
  IF st.db /\ sid \in DOMAIN st.db_sessions
  THEN [st EXCEPT !.db_sessions[sid] = Merge(@, updates)]
  ELSE st

\* SessionStore.update_session: None (no change) for an id not in memory;
\* otherwise the session in memory takes the updates, then _persist_session
update_session(st, sid, updates) ==
  IF sid \notin DOMAIN st.sessions
  THEN st
  ELSE persist_session([st EXCEPT !.sessions[sid] = Merge(@, updates)], sid, updates)

\* the rows of table messages with session_id = sid, in rowid order; a row
\* is [id, data, created_at]
Table(st, sid) == IF sid \in DOMAIN st.db_messages THEN st.db_messages[sid] ELSE << >>

\* the data column of those rows: SELECT data FROM messages WHERE session_id = ?
Rows(st, sid) == [i \in DOMAIN Table(st, sid) |-> Table(st, sid)[i].data]

\* the orders in which `ORDER BY created_at ASC` may return the rows T: every
\* arrangement with created_at ascending (SQL leaves the order of rows with
\* equal created_at open)
Ascending(T) ==
  {p \in [DOMAIN T -> DOMAIN T] :
     /\ \A i, j \in DOMAIN T : i # j => p[i] # p[j]
     /\ \A i, j \in DOMAIN T : i < j => T[p[i]].created_at <= T[p[j]].created_at}

\* get_session_history returning None (no row in table sessions)
NoHistory == [status |-> None, messages |-> << >>]

\* SessionStore.get_session_history: None when table sessions has no row for
\* sid, otherwise the row's status with the messages in one of those orders
get_session_history(st, sid) ==
  IF sid \notin DOMAIN st.db_sessions
  THEN {NoHistory}
  ELSE {[status |-> st.db_sessions[sid].status,
         messages |-> [i \in DOMAIN Table(st, sid) |-> Table(st, sid)[p[i]].data]] :
        p \in Ascending(Table(st, sid))}

\* message.get("uuid"): None for a dict without that key
Uuid(message) == IF "uuid" \in DOMAIN message THEN message.uuid ELSE None

\* message.get("uuid") or str(uuid.uuid4()): None and "" are falsy, and a
\* uuid4 is an id no row holds (here: named after the place the row takes)
MessageId(st, sid, message) ==
  IF Uuid(message) \notin {None, ""}
  THEN [uuid |-> Uuid(message), sid |-> 0, n |-> 0]
  ELSE [uuid |-> None, sid |-> sid, n |-> Len(Table(st, sid)) + 1]

\* the ids of all rows of table messages (id is its PRIMARY KEY)
MessageIds(st) ==
  UNION {{st.db_messages[s][i].id : i \in DOMAIN st.db_messages[s]} :
         s \in DOMAIN st.db_messages}

\* record_message with a plain INSERT that takes a second row for an id
record_message_inserts_again(st, sid, message) ==
  [st EXCEPT !.db_messages =
     Put(@, sid, Append(Table(st, sid),
                        [id |-> MessageId(st, sid, message), data |-> message,
                         created_at |-> clock]))]

\* SessionStore.record_message: returns at once when _db is unset, otherwise
\* INSERT OR IGNORE INTO messages (id, session_id, data, created_at) with
\* created_at read from the wall clock
record_message(st, sid, message) ==
  LET id == MessageId(st, sid, message)
  IN  IF ~st.db \/ id \in MessageIds(st)
      THEN st
      ELSE [st EXCEPT !.db_messages =
              Put(@, sid, Append(Table(st, sid),
                                 [id |-> id, data |-> message, created_at |-> clock]))]

\* SessionStore.list_sessions, as _handle_session_list reports it: one entry
\* per row of table sessions (as a set: the ORDER BY updated_at is not kept)
list_sessions(st) ==
  {[id |-> s, title |-> st.db_sessions[s].title, status |-> st.db_sessions[s].status,
    claudeSessionId |-> st.db_sessions[s].claude_session_id,
    cwd |-> st.db_sessions[s].cwd] : s \in DOMAIN st.db_sessions}

\* delete_session that forgets the session in memory and deletes no row
delete_session_memory_only(st, sid) ==
  [st EXCEPT !.sessions = Pop(@, sid)]

\* SessionStore.delete_session: False (no change) when _db is unset
delete_session(st, sid) ==
  IF ~st.db
  THEN st
  ELSE [st EXCEPT !.sessions = Pop(@, sid),
                  !.db_sessions = Pop(@, sid),
                  !.db_messages = Pop(@, sid)]

\* --------------------------------------------------------- message dicts
Msg(type, subtype, value) ==
  [type |-> type, subtype |-> subtype, value |-> value]

UserPromptMsg(prompt) == Msg("user_prompt", None, prompt)

\* ------------------------------------------------ WebSocketHandler._emit
GuardedTypes == {"session.status", "stream.message", "stream.user_prompt",
                 "permission.request"}

\* WebSocketHandler._has_live_session
has_live_session(st, sid) == sid \in DOMAIN st.sessions

\* WebSocketHandler._record_event_side_effects
record_event_side_effects(st, e) ==
  CASE e.type = "session.status"     -> update_session(st, e.session_id, [status |-> e.status])
    [] e.type = "stream.message"     -> record_message(st, e.session_id, e.body)
    [] e.type = "stream.user_prompt" -> record_message(st, e.session_id, UserPromptMsg(e.body))
    [] OTHER                         -> st

\* what the database holds of an event's durable fact at the moment the
\* event is sent: the status of a session.status, the row of a stream.message
\* (and, for an init message with a session id of the engine, that id in the
\* session) or of a stream.user_prompt (an event of another type has none)
Stored(st, e) ==
  CASE e.type = "session.status" ->
         e.session_id \in DOMAIN st.db_sessions
         /\ st.db_sessions[e.session_id].status = e.status
    [] e.type = "stream.message" ->
         /\ \E i \in DOMAIN Rows(st, e.session_id) : Rows(st, e.session_id)[i] = e.body
         /\ (e.body.type = "system" /\ e.body.value # None)
            => /\ st.sessions[e.session_id].claude_session_id = e.body.value
               /\ st.db_sessions[e.session_id].claude_session_id = e.body.value
    [] e.type = "stream.user_prompt" ->
         \E i \in DOMAIN Rows(st, e.session_id) :
            Rows(st, e.session_id)[i] = UserPromptMsg(e.body)
    [] OTHER -> TRUE

\* broadcast that gives up at a failed send: nobody is served and every
\* connection of the snapshot is discarded
broadcast_drops_all(cx, e) ==
  LET failed == cx.connections \cap cx.broken
  IN  IF failed = {}
      THEN [cx EXCEPT !.out  = Append(@, e),
                      !.sent = Append(@, [event |-> e, stored |-> Stored(cx.st, e),
                                          to |-> cx.connections,
                                          failed |-> failed])]
      ELSE [cx EXCEPT !.out  = Append(@, e),
                      !.sent = Append(@, [event |-> e, stored |-> Stored(cx.st, e),
                                          to |-> {},
                                          failed |-> cx.connections]),
                      !.connections = {},
                      !.broken = {}]

\* ConnectionManager.broadcast on a context cx: with no connection it
\* returns at once; otherwise the event is sent to every connection of the
\* snapshot, a connection whose send raises is collected and discarded after
\* the loop, and the call returns normally
broadcast(cx, e) ==
  LET failed == cx.connections \cap cx.broken
  IN  [cx EXCEPT !.out  = Append(@, e),
                 !.sent = Append(@, [event |-> e, stored |-> Stored(cx.st, e),
                                     to |-> cx.connections \ failed,
                                     failed |-> failed]),
                 !.connections = @ \ failed,
                 !.broken = @ \ failed]

\* _emit without the test for a deleted session
emit_unguarded(cx, e) ==
  broadcast([cx EXCEPT !.st = record_event_side_effects(@, e)], e)

\* _emit that broadcasts before it records the side effect
emit_broadcasts_first(cx, e) ==
  IF e.type \in GuardedTypes /\ ~has_live_session(cx.st, e.session_id)
  THEN [cx EXCEPT !.dropped = Append(@, e)]
  ELSE [broadcast(cx, e) EXCEPT !.st = record_event_side_effects(@, e)]

\* WebSocketHandler._emit on a context cx (the store, the connections and
\* what the step has emitted so far): an event of a guarded type whose
\* session is not in memory is dropped; otherwise its side effect is
\* recorded and the event is handed to ConnectionManager.broadcast
emit(cx, e) ==
  IF e.type \in GuardedTypes /\ ~has_live_session(cx.st, e.session_id)
  THEN [cx EXCEPT !.dropped = Append(@, e)]
  ELSE broadcast([cx EXCEPT !.st = record_event_side_effects(@, e)], e)

\* the completed/error session.status events of run r among the broadcasts b
Terminals(b, r) ==
  Cardinality({i \in DOMAIN b : /\ b[i].event.type = "session.status"
                                /\ b[i].event.by = r
                                /\ b[i].event.status \in {COMPLETED, ERROR}})

Ctx(st) == [st |-> st, out |-> << >>, sent |-> << >>, dropped |-> << >>,
            connections |-> connections, broken |-> broken]

\* the store, the connections and the emitted events after a step
CommitStep(cx) ==
  /\ sessions'    = cx.st.sessions
  /\ db_sessions' = cx.st.db_sessions
  /\ db_messages' = cx.st.db_messages
  /\ out'         = cx.out
  /\ sent'        = cx.sent
  /\ dropped'     = cx.dropped
  /\ connections' = cx.connections
  /\ broken'      = cx.broken
  /\ clock'       = clock
  /\ db'          = cx.st.db
  /\ raised'      = cx.st.raised
  /\ boots'       = cx.st.boots
  /\ terminal'    = [r \in DOMAIN terminal |->
                       IF terminal[r] + Terminals(cx.sent, r) < 2
                       THEN terminal[r] + Terminals(cx.sent, r) ELSE 2]

\* ... of a handler or callback that runs to its end within the step
Commit(cx) ==
  /\ CommitStep(cx)
  /\ UNCHANGED << flight, told_deleted >>

\* a step that hands nothing to the broadcaster
Quiet ==
  /\ out' = << >>
  /\ sent' = << >>
  /\ dropped' = << >>
  /\ UNCHANGED << broken, clock >>

\* a quiet step that leaves the store's connection alone and raises nothing
NoBroadcast ==
  /\ Quiet
  /\ UNCHANGED << db, boots, terminal, flight, told_deleted >>
  /\ raised' = None

\* ------------------------------------------------------------ ClaudeRunner
\* task: "none"    no such runner yet
\*       "ready"   run() has created the task, _execute has not started
\*       "recv"    _execute is inside the receive_response() loop
\*       "closing" the loop has completed, the client context is being left
\*       "done"    the task has finished
\*
\* reply: what can_use_tool last returned at once, without asking the user
NoReply == [behavior |-> None, updatedInput |-> None]

NoRunner ==
  [session_id |-> 0, task |-> "none", abort_event |-> FALSE, cancel |-> FALSE,
   client |-> FALSE, interrupted |-> FALSE, pending |-> {}, events |-> 0,
   abort_calls |-> 0, reply |-> NoReply]

\* ClaudeRunner.__init__ followed by ClaudeRunner.run
NewRunner(sid) == [NoRunner EXCEPT !.session_id = sid, !.task = "ready"]

NoRequest ==
  [run |-> 0, session_id |-> 0, via |-> None, callback |-> "unused",
   hfuture |-> NOFUTURE, rfuture |-> NOFUTURE, answer |-> NOFUTURE]

FreeRids == {r \in Rids : run[r].task = "none"}
FreeTids == {t \in DOMAIN request : request[t].callback = "unused"}
NewRid   == CHOOSE r \in FreeRids : \A q \in FreeRids : r <= q
NewTid   == CHOOSE t \in FreeTids : \A q \in FreeTids : t <= q

\* asyncio.Future.set_result
set_result(f, result) == IF f = PENDING THEN result ELSE INVALID

\* asyncio.Future.done
done(f) == f # PENDING

\* abort that reaches every runner: all are marked aborted and cancelled and
\* every pending future is denied
abort_every_run(rn, rq, r) ==
  [run |-> [x \in DOMAIN rn |->
              [rn[x] EXCEPT !.abort_event = TRUE,
                            !.interrupted = @ \/ rn[x].client,
                            !.cancel      = @ \/ rn[x].task \in {"ready", "recv", "closing"},
                            !.pending     = {}]],
   request |-> [t \in DOMAIN rq |->
                  IF ~done(rq[t].rfuture)
                  THEN [rq[t] EXCEPT !.rfuture = set_result(@, AbortDeny)]
                  ELSE rq[t]]]

\* abort that forgets the run: it neither sets the abort event nor cancels
\* the task (it only settles the runner's futures)
abort_forgets_task(rn, rq, r) ==
  [run |-> [rn EXCEPT ![r].pending = {}],
   request |-> [t \in DOMAIN rq |->
                  IF t \in rn[r].pending /\ ~done(rq[t].rfuture)
                  THEN [rq[t] EXCEPT !.rfuture = set_result(@, AbortDeny)]
                  ELSE rq[t]]]

\* abort that only asks the engine to interrupt
abort_only_interrupts(rn, rq, r) ==
  [run |-> [rn EXCEPT ![r].interrupted = @ \/ rn[r].client],
   request |-> rq]

\* abort without the done() test and without the final clear()
abort_keeps_pending(rn, rq, r) ==
  [run |-> [rn EXCEPT ![r].abort_event = TRUE,
                      ![r].interrupted = @ \/ rn[r].client,
                      ![r].cancel      = @ \/ rn[r].task \in {"ready", "recv", "closing"}],
   request |-> [t \in DOMAIN rq |->
                  IF t \in rn[r].pending
                  THEN [rq[t] EXCEPT !.rfuture = set_result(@, AbortDeny)]
                  ELSE rq[t]]]

\* ClaudeRunner.abort on runner r, given the runners rn and the requests rq
abort(rn, rq, r) ==
  [run |-> [rn EXCEPT ![r].abort_event = TRUE,
                      ![r].interrupted = @ \/ rn[r].client,
                      ![r].cancel      = @ \/ rn[r].task \in {"ready", "recv", "closing"},
                      ![r].pending     = {}],
   request |-> [t \in DOMAIN rq |->
                  IF t \in rn[r].pending /\ ~done(rq[t].rfuture)
                  THEN [rq[t] EXCEPT !.rfuture = set_result(@, AbortDeny)]
                  ELSE rq[t]]]

\* a call of runner.abort(); abort_calls counts the calls (at most 2 are told apart)
CallAbort(rn, rq, r) ==
  LET a == abort(rn, rq, r)
  IN  [a EXCEPT !.run[r].abort_calls = IF rn[r].abort_calls < 2 THEN rn[r].abort_calls + 1 ELSE 2]

\* resolve_permission on a dict of futures that all runners share: every
\* pending future takes the result
resolve_permission_shared(rn, rq, r, tid, result) ==
  [run |-> [x \in DOMAIN rn |-> [rn[x] EXCEPT !.pending = {}]],
   request |-> [t \in DOMAIN rq |->
                  IF rq[t].rfuture = PENDING
                  THEN [rq[t] EXCEPT !.rfuture = set_result(@, result)]
                  ELSE rq[t]]]

\* resolve_permission that sets the result on whatever future the id names
resolve_permission_unguarded(rn, rq, r, tid, result) ==
  [run |-> [rn EXCEPT ![r].pending = @ \ {tid}],
   request |-> [rq EXCEPT ![tid].rfuture = set_result(@, result)]]

\* ClaudeRunner.resolve_permission on runner r
resolve_permission(rn, rq, r, tid, result) ==
  [run |-> [rn EXCEPT ![r].pending = @ \ {tid}],
   request |-> IF tid \in rn[r].pending /\ ~done(rq[tid].rfuture)
               THEN [rq EXCEPT ![tid].rfuture = set_result(@, result)]
               ELSE rq]

\* ------------------------------------------------- coroutines in flight
NoEvent == Event("none", 0, None, None, 0)

\* a connection whose receive loop waits for the next text
Idle == [op |-> "idle", pc |-> "idle", sid |-> 0, prompt |-> None, event |-> NoEvent]

\* a run that is in none of its callbacks
NoCallback == [pc |-> "none", tid |-> 0, event |-> NoEvent]

NoFlight == [cmd |-> [c \in Conns |-> Idle], cb |-> [r \in Rids |-> NoCallback]]

\* -------------------------------------------------------------------- Init
\* (the server accepts connections after lifespan has initialized the store)
Init ==
  /\ sessions = << >>
  /\ db_sessions = << >>
  /\ db_messages = << >>
  /\ connections = {}
  /\ runners = << >>
  /\ pending_permissions = {}
  /\ run = [r \in Rids |-> NoRunner]
  /\ request = [t \in Tids |-> NoRequest]
  /\ sid_seq = 0
  /\ out = << >>
  /\ sent = << >>
  /\ dropped = << >>
  /\ broken = {}
  /\ clock = 0
  /\ db = TRUE
  /\ raised = None
  /\ boots = 1
  /\ terminal = [r \in Rids |-> 0]
  /\ flight = NoFlight
  /\ told_deleted = {}

\* --------------------------------------------------- connection lifecycle
\* ConnectionManager.connect (handle_connection)
Connect(c) ==
  /\ c \notin connections
  /\ connections' = connections \cup {c}
  /\ NoBroadcast
  /\ UNCHANGED << sessions, db_sessions, db_messages, runners,
                  pending_permissions, run, request, sid_seq >>

\* ConnectionManager.disconnect (the finally of handle_connection)
Disconnect(c) ==
  /\ c \in connections
  /\ connections' = connections \ {c}
  /\ broken' = broken \ {c}
  /\ out' = << >> /\ sent' = << >> /\ dropped' = << >>
  /\ UNCHANGED << db, boots, terminal, flight, told_deleted >> /\ raised' = None
  /\ UNCHANGED << sessions, db_sessions, db_messages, runners,
                  pending_permissions, run, request, sid_seq, clock >>

\* the peer of a registered connection goes away: from now on send_text on
\* that socket raises (the server has not yet discarded the connection)
SocketBreak(c) ==
  /\ c \in connections \ broken
  /\ broken' = broken \cup {c}
  /\ out' = << >> /\ sent' = << >> /\ dropped' = << >>
  /\ UNCHANGED << db, boots, terminal, flight, told_deleted >> /\ raised' = None
  /\ UNCHANGED << sessions, db_sessions, db_messages, connections, runners,
                  pending_permissions, run, request, sid_seq, clock >>

\* ------------------------------------------------------- command handlers
\* WebSocketHandler._start_runner: the new runner replaces whatever runner
\* the registry held for the session
start_runner(sid) ==
  /\ run' = [run EXCEPT ![NewRid] = NewRunner(sid)]
  /\ runners' = Put(runners, sid, NewRid)

\* SessionService.create_and_start_session
create_and_start_session(st, sid, title, prompt) ==
  update_session(create_session(st, sid, title, None, None, prompt), sid,
                 [status |-> RUNNING, last_prompt |-> prompt])

\* WebSocketHandler._handle_session_start, while fewer than `limit` session
\* ids have been generated
SessionStartUpTo(limit, title, prompt) ==
  /\ sid_seq < limit
  /\ FreeRids # {}
  /\ LET sid == sid_seq + 1
         st1 == create_and_start_session(Store, sid, title, prompt)
         cx1 == emit(Ctx(st1), StatusEvent(sid, RUNNING, None, 0))
         cx2 == emit(cx1, UserPromptEvent(sid, prompt))
     IN  /\ Commit(cx2)
         /\ sid_seq' = sid
         /\ start_runner(sid)
  /\ UNCHANGED << pending_permissions, request >>

SessionStart(title, prompt) == SessionStartUpTo(MaxSessions, title, prompt)

\* continue_session without the test of claude_session_id
continue_error_no_resume_test(st, sid) ==
  IF sid \notin DOMAIN st.sessions THEN NoSessionMsg ELSE None

\* SessionService.continue_session: the error it returns (None when it succeeds)
continue_error(st, sid) ==
  IF sid \notin DOMAIN st.sessions THEN NoSessionMsg
  ELSE IF st.sessions[sid].claude_session_id = None THEN NoResumeMsg
  ELSE None

\* continue_session that updates the session before it tests the resume id
continue_session_updates_first(st, sid, prompt) ==
  update_session(st, sid, [status |-> RUNNING, last_prompt |-> prompt])

\* SessionService.continue_session: the store it leaves
continue_session(st, sid, prompt) ==
  IF continue_error(st, sid) # None THEN st
  ELSE update_session(st, sid, [status |-> RUNNING, last_prompt |-> prompt])

\* WebSocketHandler._handle_session_continue
SessionContinue(sid, prompt) ==
  LET err == continue_error(Store, sid)
      st1 == continue_session(Store, sid, prompt)
  IN  IF err # None
      THEN /\ Commit(LET cx0 == IF sid \notin DOMAIN sessions
                                THEN emit(Ctx(st1), DeletedEvent(sid))
                                ELSE Ctx(st1)
                     IN  emit(cx0, RunnerErrorEvent(sid, err)))
           /\ UNCHANGED << runners, pending_permissions, run,
                           request, sid_seq >>
      ELSE /\ FreeRids # {}
           /\ Commit(emit(emit(Ctx(st1), StatusEvent(sid, RUNNING, None, 0)),
                          UserPromptEvent(sid, prompt)))
           /\ start_runner(sid)
           /\ UNCHANGED << pending_permissions, request, sid_seq >>

\* SessionService.stop_session
stop_session(st, sid) ==
  IF sid \in DOMAIN st.sessions THEN update_session(st, sid, [status |-> IDLE]) ELSE st

\* runners.pop(session_id) followed by runner.abort() (stop and delete)
pop_and_abort(sid) ==
  IF sid \in DOMAIN runners
  THEN LET a == CallAbort(run, request, runners[sid])
       IN  /\ runners' = Pop(runners, sid)
           /\ run' = a.run
           /\ request' = a.request
  ELSE UNCHANGED << runners, run, request >>

\* WebSocketHandler._handle_session_stop
SessionStop(sid) ==
  /\ pop_and_abort(sid)
  /\ LET st1 == stop_session(Store, sid)
     IN  Commit(IF sid \in DOMAIN sessions
                THEN emit(Ctx(st1), StatusEvent(sid, IDLE, None, 0))
                ELSE Ctx(st1))
  /\ UNCHANGED << pending_permissions, sid_seq >>

\* WebSocketHandler._handle_session_delete
SessionDelete(sid) ==
  /\ pop_and_abort(sid)
  /\ Commit(emit(Ctx(delete_session(Store, sid)), DeletedEvent(sid)))
  /\ UNCHANGED << pending_permissions, sid_seq >>

\* WebSocketHandler._handle_session_list
SessionList ==
  /\ Commit(emit(Ctx(Store), ListEvent(list_sessions(Store))))
  /\ UNCHANGED << runners, pending_permissions, run, request, sid_seq >>

\* WebSocketHandler._handle_session_history
SessionHistory(sid) ==
  /\ \E result \in get_session_history(Store, sid) :
        Commit(IF result = NoHistory
               THEN emit(Ctx(Store), DeletedEvent(sid))
               ELSE emit(Ctx(Store), HistoryEvent(sid, result.status, result.messages)))
  /\ UNCHANGED << runners, pending_permissions, run, request, sid_seq >>

\* the router has taken a client's answer for a request whose callback waits
Answered(rq, sid, tid, result) ==
  IF rq[tid].callback = "waiting" /\ rq[tid].session_id = sid /\ rq[tid].answer = NOFUTURE
  THEN [rq EXCEPT ![tid].answer = result]
  ELSE rq

\* WebSocketHandler._handle_permission_response
PermissionResponse(sid, tid, result) ==
  /\ IF sid \in DOMAIN sessions /\ sid \in DOMAIN runners
     THEN LET a == resolve_permission(run, Answered(request, sid, tid, result),
                                      runners[sid], tid, result)
          IN  run' = a.run /\ request' = a.request
     ELSE run' = run /\ request' = Answered(request, sid, tid, result)
  /\ NoBroadcast
  /\ UNCHANGED << sessions, db_sessions, db_messages, connections,
                  runners, pending_permissions, sid_seq >>

\* ---------------------------------------------------------- the router
\* An inbound text, as far as _handle_message looks at it: whether
\* json.loads(data) gives an object, the "type" it names, whether the payload
\* model of that type accepts raw["payload"], and the session id of an
\* accepted payload (its other fields are chosen when the handler runs)
Commands == {"session.list", "session.history", "session.start",
             "session.continue", "session.stop", "session.delete",
             "permission.response"}
Text(decodes, type, valid, sid) ==
  [decodes |-> decodes, type |-> type, valid |-> valid, session_id |-> sid]
Texts ==
  {Text(TRUE, t, v, s) : t \in Commands \cup {"session.rename"}, v \in BOOLEAN, s \in Sids}
  \cup {Text(FALSE, None, FALSE, s) : s \in Sids}

DroppedText(data) == Event("inbound.text", 0, None, data, 0)

\* routing that hands the payload to the handler without validating it
route_without_validation(data) ==
  IF ~data.decodes THEN "drop"
  ELSE IF data.type \notin Commands THEN "drop"
  ELSE data.type

\* _handle_message up to the call of the handler: "drop" when json.loads or
\* raw.get raises, when handlers.get(event_type) is None, and when the
\* payload model's constructor raises (session.list takes no payload)
route(data) ==
  IF ~data.decodes THEN "drop"
  ELSE IF data.type \notin Commands THEN "drop"
  ELSE IF data.type # "session.list" /\ ~data.valid THEN "drop"
  ELSE data.type

\* WebSocketHandler._handle_message for a text received on connection c
\* (the receive loop of handle_connection)
HandleMessage(c, data) ==
  /\ c \in connections
  /\ LET to == route(data)
         sid == data.session_id
     IN  CASE to = "drop" ->
                /\ out' = << >> /\ sent' = << >>
                /\ dropped' = << DroppedText(data) >>
                /\ UNCHANGED << db, boots, terminal, flight, told_deleted >> /\ raised' = None
                /\ UNCHANGED << sessions, db_sessions, db_messages, connections,
                                runners, pending_permissions, run, request,
                                sid_seq, broken, clock >>
           [] to = "session.list"     -> SessionList
           [] to = "session.history"  -> SessionHistory(sid)
           [] to = "session.start"    ->
                \E t \in Titles, p \in StartPrompts : SessionStart(t, p)
           [] to = "session.continue" ->
                \E p \in ContinuePrompts : SessionContinue(sid, p)
           [] to = "session.stop"     -> SessionStop(sid)
           [] to = "session.delete"   -> SessionDelete(sid)
           [] to = "permission.response" ->
                \E t \in Tids, res \in ClientResults : PermissionResponse(sid, t, res)

\* `for runner in self._runners.values(): runner.abort()` over the runners S
RECURSIVE AbortAll(_, _, _)
AbortAll(rn, rq, S) ==
  IF S = {} THEN [run |-> rn, request |-> rq]
  ELSE LET r == CHOOSE x \in S : TRUE
           a == CallAbort(rn, rq, r)
       IN  AbortAll(a.run, a.request, S \ {r})

\* WebSocketHandler.cleanup
Cleanup ==
  /\ runners # << >>
  /\ LET a == AbortAll(run, request, {runners[s] : s \in DOMAIN runners})
     IN  run' = a.run /\ request' = a.request
  /\ runners' = << >>
  /\ pending_permissions' = {}
  /\ NoBroadcast
  /\ UNCHANGED << sessions, db_sessions, db_messages, connections, sid_seq >>

\* ------------------------------------------------------ approval requests
\* WebSocketHandler._create_permission_handler.on_permission_request up to
\* `await future`: the event is emitted, then the future is registered
on_permission_request(cx, rq, pp, r, tid, via) ==
  LET sid == run[r].session_id
  IN  [cx |-> emit(cx, PermissionRequestEvent(sid, tid, r)),
       request |-> [rq EXCEPT ![tid].run = r, ![tid].session_id = sid,
                               ![tid].via = via, ![tid].callback = "waiting",
                               ![tid].hfuture = PENDING],
       pending |-> pp \cup {<<sid, tid>>}]

\* ClaudeRunner._can_use_tool("AskUserQuestion", ...): the callback the engine
\* invokes, in a task of the engine's client, while the run holds the client
EngineAsksPermission(r) ==
  /\ run[r].task = "recv"
  /\ run[r].client
  /\ FreeTids # {}
  /\ LET p == on_permission_request(Ctx(Store), request, pending_permissions,
                                    r, NewTid, "sdk")
     IN  /\ Commit(p.cx)
         /\ request' = p.request
         /\ pending_permissions' = p.pending
  /\ UNCHANGED << runners, run, sid_seq >>

\* ClaudeRunner.can_use_tool("AskUserQuestion", ...): the external interface,
\* which registers a future of the runner before it asks the handler
CanUseTool(r) ==
  /\ run[r].task \in {"ready", "recv"}
  /\ FreeTids # {}
  /\ LET tid == NewTid
         p == on_permission_request(Ctx(Store),
                                    [request EXCEPT ![tid].rfuture = PENDING],
                                    pending_permissions, r, tid, "ext")
     IN  /\ Commit(p.cx)
         /\ request' = p.request
         /\ pending_permissions' = p.pending
         /\ run' = [run EXCEPT ![r].pending = @ \cup {tid}]
  /\ UNCHANGED << runners, sid_seq >>

\* tool names and inputs of the engine's approval requests
AskUserQuestion == "AskUserQuestion"
ToolNames  == {AskUserQuestion, "Bash", "Read"}
ToolInputs == {"i1", "i2"}

\* the test that sends every tool's request to the user
asks_user_for_every_tool(tool_name) == TRUE

\* `if tool_name == "AskUserQuestion"` of _can_use_tool and can_use_tool
asks_user(tool_name) == tool_name = AskUserQuestion

\* `return PermissionResultAllow(updated_input=tool_input)` and
\* `return {"behavior": "allow", "updatedInput": tool_input}`
auto_approve(r, tool_input) ==
  /\ run' = [run EXCEPT ![r].reply = [behavior |-> "allow", updatedInput |-> tool_input]]
  /\ NoBroadcast
  /\ UNCHANGED << sessions, db_sessions, db_messages, connections, runners,
                  pending_permissions, request, sid_seq >>

\* ClaudeRunner._can_use_tool(tool_name, tool_input, context), the callback
\* the engine invokes while the run holds the client
EngineCallsCanUseTool(r, tool_name, tool_input) ==
  IF asks_user(tool_name)
  THEN EngineAsksPermission(r)
  ELSE /\ run[r].task = "recv"
       /\ run[r].client
       /\ auto_approve(r, tool_input)

\* ClaudeRunner.can_use_tool(tool_name, tool_input), the external interface
CallCanUseTool(r, tool_name, tool_input) ==
  IF asks_user(tool_name)
  THEN CanUseTool(r)
  ELSE /\ run[r].task \in {"ready", "recv"}
       /\ auto_approve(r, tool_input)

\* Leaving `async with self._client` closes the engine's client, which cancels
\* the callbacks it is running; the finally of on_permission_request then
\* removes each one's entry from the handler's map
ClosedRequests(rq, r) ==
  [t \in DOMAIN rq |->
     IF rq[t].run = r /\ rq[t].via = "sdk" /\ rq[t].callback = "waiting"
     THEN [rq[t] EXCEPT !.callback = "cancelled", !.hfuture = CANCELLED]
     ELSE rq[t]]

ClosedPending(rq, pp, r) ==
  {e \in pp : ~(rq[e[2]].run = r /\ rq[e[2]].via = "sdk" /\ rq[e[2]].callback = "waiting")}

\* ------------------------------------------------------------ the run task
\* the event loop resumes the task normally (no cancellation is pending)
Resumes(r) == ~run[r].cancel

\* _execute up to the first message: the client is created and entered
TaskStart(r) ==
  /\ run[r].task = "ready"
  /\ Resumes(r)
  /\ run' = [run EXCEPT ![r].task = "recv", ![r].client = TRUE]
  /\ NoBroadcast
  /\ UNCHANGED << sessions, db_sessions, db_messages, connections,
                  runners, pending_permissions, request, sid_seq >>

\* the init branch of _execute without the test of the engine's session id:
\* whatever the message carries is written to the session
on_init_without_test(cx, sid, h, r) ==
  emit([cx EXCEPT !.st = update_session(@, sid, [claude_session_id |-> h])],
       MessageEvent(sid, Msg("system", "init", h), r))

\* the init branch of _execute that sends the message before it surfaces the
\* engine's session id
on_init_sends_first(cx, sid, h, r) ==
  LET cx1 == emit(cx, MessageEvent(sid, Msg("system", "init", h), r))
  IN  IF h # None
      THEN [cx1 EXCEPT !.st = update_session(@, sid, [claude_session_id |-> h])]
      ELSE cx1

\* ClaudeRunner.on_session_update, then on_message, for a system/init message
\* that carries the engine's session id h (None when it carries none)
on_init(cx, sid, h, r) ==
  LET cx1 == IF h # None
             THEN [cx EXCEPT !.st = update_session(@, sid, [claude_session_id |-> h])]
             ELSE cx
  IN  emit(cx1, MessageEvent(sid, Msg("system", "init", h), r))

\* on_message and on_status for a result message
on_result(cx, sid, subtype, r) ==
  emit(emit(cx, MessageEvent(sid, Msg("result", subtype, None), r)),
       StatusEvent(sid, IF subtype = "success" THEN COMPLETED ELSE ERROR, None, r))

\* one iteration of `async for message in receive_response()`
RunInit(r, h) ==
  /\ run[r].task = "recv"
  /\ Resumes(r)
  /\ run[r].events < MaxEvents
  /\ IF run[r].abort_event
     THEN /\ run' = [run EXCEPT ![r].task = "closing"]
          /\ Commit(Ctx(Store))
     ELSE /\ run' = [run EXCEPT ![r].events = @ + 1]
          /\ Commit(on_init(Ctx(Store), run[r].session_id, h, r))
  /\ UNCHANGED << runners, pending_permissions, request, sid_seq >>

RunAssistant(r) ==
  /\ run[r].task = "recv"
  /\ Resumes(r)
  /\ run[r].events < MaxEvents
  /\ IF run[r].abort_event
     THEN /\ run' = [run EXCEPT ![r].task = "closing"]
          /\ Commit(Ctx(Store))
     ELSE /\ run' = [run EXCEPT ![r].events = @ + 1]
          /\ Commit(emit(Ctx(Store),
                         MessageEvent(run[r].session_id, Msg("assistant", None, None), r)))
  /\ UNCHANGED << runners, pending_permissions, request, sid_seq >>

\* the terminal message: receive_response() ends after it
RunResult(r, subtype) ==
  /\ run[r].task = "recv"
  /\ Resumes(r)
  /\ run' = [run EXCEPT ![r].task = "closing"]
  /\ IF run[r].abort_event
     THEN Commit(Ctx(Store))
     ELSE Commit(on_result(Ctx(Store), run[r].session_id, subtype, r))
  /\ UNCHANGED << runners, pending_permissions, request, sid_seq >>

\* after the loop: the client context is left, then the "query completed
\* normally" check, then the finally
RunFinish(r) ==
  /\ run[r].task = "closing"
  /\ Resumes(r)
  /\ LET sid == run[r].session_id
     IN  Commit(IF /\ sid \in DOMAIN sessions
                   /\ sessions[sid].status = RUNNING
                   /\ ~run[r].abort_event
                THEN emit(Ctx(Store), StatusEvent(sid, COMPLETED, None, r))
                ELSE Ctx(Store))
  /\ run' = [run EXCEPT ![r].task = "done", ![r].client = FALSE]
  /\ request' = ClosedRequests(request, r)
  /\ pending_permissions' = ClosedPending(request, pending_permissions, r)
  /\ UNCHANGED << runners, sid_seq >>

\* an exception raised while driving the run (except Exception)
RunFault(r) ==
  /\ run[r].task \in {"ready", "recv"}
  /\ Resumes(r)
  /\ Commit(IF run[r].abort_event
            THEN Ctx(Store)
            ELSE emit(Ctx(Store), StatusEvent(run[r].session_id, ERROR, EngineFault, r)))
  /\ run' = [run EXCEPT ![r].task = "done", ![r].client = FALSE]
  /\ request' = ClosedRequests(request, r)
  /\ pending_permissions' = ClosedPending(request, pending_permissions, r)
  /\ UNCHANGED << runners, sid_seq >>

\* the task is resumed with CancelledError (except asyncio.CancelledError)
RunCancelled(r) ==
  /\ run[r].task \in {"ready", "recv", "closing"}
  /\ run[r].cancel
  /\ run' = [run EXCEPT ![r].task = "done", ![r].client = FALSE, ![r].cancel = FALSE]
  /\ request' = ClosedRequests(request, r)
  /\ pending_permissions' = ClosedPending(request, pending_permissions, r)
  /\ NoBroadcast
  /\ UNCHANGED << sessions, db_sessions, db_messages, connections,
                  runners, sid_seq >>

\* runner.abort() called on the runner object itself, as the runner's unit
\* tests call it (the handler calls it once per runner, after popping it)
RunnerAbort(r) ==
  /\ run[r].task # "none"
  /\ run[r].abort_calls < 2
  /\ LET a == CallAbort(run, request, r)
     IN  run' = a.run /\ request' = a.request
  /\ NoBroadcast
  /\ UNCHANGED << sessions, db_sessions, db_messages, connections, runners,
                  pending_permissions, sid_seq >>

\* -------------------------------------------------------------------- Next
Next ==
  \/ \E c \in Conns : Connect(c)
  \/ \E c \in Conns : Disconnect(c)
  \/ \E c \in Conns : SocketBreak(c)
  \/ \E t \in Titles, p \in StartPrompts : SessionStart(t, p)
  \/ \E s \in Sids, p \in ContinuePrompts : SessionContinue(s, p)
  \/ \E s \in Sids : SessionStop(s)
  \/ \E s \in Sids : SessionDelete(s)
  \/ SessionList
  \/ \E s \in Sids, t \in Tids, res \in ClientResults : PermissionResponse(s, t, res)
  \/ Cleanup
  \/ \E r \in Rids : EngineAsksPermission(r)
  \/ \E r \in Rids : TaskStart(r)
  \/ \E r \in Rids, h \in Handles : RunInit(r, h)
  \/ \E r \in Rids : RunAssistant(r)
  \/ \E r \in Rids, sub \in {"success", "error"} : RunResult(r, sub)
  \/ \E r \in Rids : RunFinish(r)
  \/ \E r \in Rids : RunFault(r)
  \/ \E r \in Rids : RunCancelled(r)

Spec == Init /\ [][Next]_vars

\* The event loop runs every task that is ready: a created task starts, a
\* cancelled task is resumed with CancelledError, a finished loop is left.
\* A client that has been asked answers (the premise of the claims about
\* answers).  The engine is not obliged to produce a further event.
TaskFairness ==
  /\ \A r \in Rids : WF_vars(TaskStart(r))
  /\ \A r \in Rids : WF_vars(RunCancelled(r))
  /\ \A r \in Rids : WF_vars(RunFinish(r))
  /\ WF_vars(\E s \in Sids, t \in Tids, res \in ClientResults : PermissionResponse(s, t, res))

LiveSpec == Init /\ [][Next]_vars /\ TaskFairness

\* The runner driven through its own interface, as its unit tests drive it:
\* can_use_tool, resolve_permission (through the router) and abort, called
\* on the runner of a started session at any time and in any order.
RunnerNext ==
  \/ \E t \in Titles, p \in StartPrompts : SessionStart(t, p)
  \/ \E s \in Sids, p \in ContinuePrompts : SessionContinue(s, p)
  \/ \E r \in Rids : TaskStart(r)
  \/ \E r \in Rids, h \in Handles : RunInit(r, h)
  \/ \E r \in Rids : CanUseTool(r)
  \/ \E s \in Sids, t \in Tids, res \in ClientResults : PermissionResponse(s, t, res)
  \/ \E r \in Rids : RunnerAbort(r)
  \/ \E r \in Rids : RunCancelled(r)

RunnerSpec == Init /\ [][RunnerNext]_vars

\* ------------------------------------------------- the store on its own
\* SessionStore driven through its own interface, as its unit tests drive
\* it: any sequence of create_session, update_session, record_message,
\* delete_session and history reads, while the wall clock moves.  time.time()
\* is the system's clock: it may stand still between two calls and it may be
\* set back.
Uuids == {"u1", "u2", ""}
StoreMessages ==
  {[type |-> "assistant", uuid |-> u, value |-> v] : u \in Uuids, v \in {"a", "b"}}
StoreUpdates ==
  {[status |-> COMPLETED], [title |-> "T2", last_prompt |-> "p2"],
   [claude_session_id |-> "h1", cwd |-> "/w", allowed_tools |-> "Read"]}

\* (The calls name ids that create_session has handed out: a session id is
\* a uuid4, which no caller holds before the session is created.)
\* a call on the store alone: nothing is emitted, no run is touched
StoreCall(st) ==
  /\ sessions' = st.sessions
  /\ db_sessions' = st.db_sessions
  /\ db_messages' = st.db_messages
  /\ db' = st.db
  /\ raised' = st.raised
  /\ boots' = st.boots
  /\ UNCHANGED << terminal, flight, told_deleted >>
  /\ Quiet
  /\ UNCHANGED << connections, runners, pending_permissions, run, request >>

\* (the uuid4 of the new session is drawn after the test of _db)
StoreCreate(title) ==
  /\ sid_seq < MaxSessions
  /\ sid_seq' = IF db THEN sid_seq + 1 ELSE sid_seq
  /\ StoreCall(create_session(Store, sid_seq + 1, title, None, None, None))

StoreUpdate(sid, updates) ==
  /\ sid <= sid_seq
  /\ StoreCall(update_session(Store, sid, updates))
  /\ UNCHANGED sid_seq

StoreRecord(sid, message) ==
  /\ sid <= sid_seq
  /\ Len(Table(Store, sid)) < MaxRows
  /\ StoreCall(record_message(Store, sid, message))
  /\ UNCHANGED sid_seq

StoreDelete(sid) ==
  /\ sid <= sid_seq
  /\ StoreCall(delete_session(Store, sid))
  /\ UNCHANGED sid_seq

\* the wall clock is read at another value
ClockSet(t) ==
  /\ t # clock
  /\ clock' = t
  /\ out' = << >> /\ sent' = << >> /\ dropped' = << >>
  /\ UNCHANGED << db, boots, terminal, flight, told_deleted >> /\ raised' = None
  /\ UNCHANGED << sessions, db_sessions, db_messages, connections, runners,
                  pending_permissions, run, request, sid_seq, broken >>

StoreNext ==
  \/ \E t \in Titles : StoreCreate(t)
  \/ \E s \in Sids, u \in StoreUpdates : StoreUpdate(s, u)
  \/ \E s \in Sids, m \in StoreMessages : StoreRecord(s, m)
  \/ \E s \in Sids : StoreDelete(s)
  \/ \E s \in Sids : SessionHistory(s)
  \/ \E t \in 0..MaxClock : ClockSet(t)

StoreSpec == Init /\ [][StoreNext]_vars

\* ---------------------------------------- the store before and after its use
\* A SessionStore from its construction on: _db is unset until initialize
\* and again after close, and the operations are called at any time.

\* _load_sessions that keeps a session already in memory as it is
load_sessions_keeps_memory(st) ==
  IF ~st.db
  THEN st
  ELSE [st EXCEPT !.sessions =
          [s \in DOMAIN st.sessions \cup DOMAIN st.db_sessions |->
             IF s \in DOMAIN st.sessions THEN st.sessions[s] ELSE st.db_sessions[s]]]

\* SessionStore._load_sessions: every row of table sessions becomes the
\* session in memory under its id (title is `row[1] or ""`); a session in
\* memory without a row stays
load_sessions(st) ==
  IF ~st.db
  THEN st
  ELSE [st EXCEPT !.sessions =
          [s \in DOMAIN st.sessions \cup DOMAIN st.db_sessions |->
             IF s \in DOMAIN st.db_sessions
             THEN [st.db_sessions[s] EXCEPT
                     !.title = IF @ \in {None, ""} THEN "" ELSE @]
             ELSE st.sessions[s]]]

\* SessionStore.initialize: connect, CREATE TABLE IF NOT EXISTS, load
initialize(st) == load_sessions([st EXCEPT !.db = TRUE, !.boots = @ + 1])

\* SessionStore.close: the connection is closed and forgotten; the sessions
\* in memory stay
close(st) == [st EXCEPT !.db = FALSE]

StoreInitialize ==
  /\ boots < MaxBoots
  /\ StoreCall(initialize(Store))
  /\ UNCHANGED sid_seq

\* a new process on the same database file: lifespan makes a new SessionStore
\* (no session in memory, _db unset) and initializes it
StoreRestart ==
  /\ ~db
  /\ boots < MaxBoots
  /\ StoreCall(initialize([Store EXCEPT !.sessions = << >>]))
  /\ UNCHANGED sid_seq

StoreClose ==
  /\ StoreCall(close(Store))
  /\ UNCHANGED sid_seq

\* SessionStore.list_sessions: raises when _db is unset, otherwise it reads
StoreList ==
  /\ StoreCall(IF ~Store.db THEN Raise(Store, NotInitialized) ELSE Store)
  /\ UNCHANGED sid_seq

\* SessionStore.get_session_history: raises when _db is unset, otherwise it
\* reads
StoreHistory(sid) ==
  /\ sid <= sid_seq
  /\ StoreCall(IF ~Store.db THEN Raise(Store, NotInitialized) ELSE Store)
  /\ UNCHANGED sid_seq

\* the state after SessionStore.__init__
LifecycleInit ==
  /\ sessions = << >>
  /\ db_sessions = << >>
  /\ db_messages = << >>
  /\ connections = {}
  /\ runners = << >>
  /\ pending_permissions = {}
  /\ run = [r \in Rids |-> NoRunner]
  /\ request = [t \in Tids |-> NoRequest]
  /\ sid_seq = 0
  /\ out = << >>
  /\ sent = << >>
  /\ dropped = << >>
  /\ broken = {}
  /\ clock = 0
  /\ db = FALSE
  /\ raised = None
  /\ boots = 0
  /\ terminal = [r \in Rids |-> 0]
  /\ flight = NoFlight
  /\ told_deleted = {}

LifecycleNext ==
  \/ StoreInitialize
  \/ StoreRestart
  \/ StoreClose
  \/ \E t \in Titles : StoreCreate(t)
  \/ \E s \in Sids, u \in StoreUpdates : StoreUpdate(s, u)
  \/ \E s \in Sids, m \in StoreMessages : StoreRecord(s, m)
  \/ \E s \in Sids : StoreDelete(s)
  \/ StoreList
  \/ \E s \in Sids : StoreHistory(s)

LifecycleSpec == LifecycleInit /\ [][LifecycleNext]_vars

\* ------------------------------------------------ two transcripts
\* one iteration of `async for message in receive_response()` for a message
\* of the engine that carries a uuid
RunMessage(r, message) ==
  /\ run[r].task = "recv"
  /\ Resumes(r)
  /\ run[r].events < MaxEvents
  /\ IF run[r].abort_event
     THEN /\ run' = [run EXCEPT ![r].task = "closing"]
          /\ Commit(Ctx(Store))
     ELSE /\ run' = [run EXCEPT ![r].events = @ + 1]
          /\ Commit(emit(Ctx(Store), MessageEvent(run[r].session_id, message, r)))
  /\ UNCHANGED << runners, pending_permissions, request, sid_seq >>

\* Up to MaxPairSessions sessions are started; the engine's messages carry
\* uuids, clients stop and delete sessions.
PairTranscriptNext ==
  \/ \E t \in Titles, p \in StartPrompts : SessionStartUpTo(MaxPairSessions, t, p)
  \/ \E r \in Rids : TaskStart(r)
  \/ \E r \in Rids, m \in StoreMessages : RunMessage(r, m)
  \/ \E s \in PairSids : SessionStop(s)
  \/ \E s \in PairSids : SessionDelete(s)
  \/ \E r \in Rids : RunCancelled(r)

PairTranscriptSpec == Init /\ [][PairTranscriptNext]_vars

\* ------------------------------------------------ shutdown and restart
\* The server is shut down and started again on the same database file.
\* lifespan after `yield`: handler.cleanup(), then store.close()
Shutdown ==
  /\ db
  /\ LET a == AbortAll(run, request, {runners[s] : s \in DOMAIN runners})
     IN  run' = a.run /\ request' = a.request
  /\ runners' = << >>
  /\ pending_permissions' = {}
  /\ sessions' = close(Store).sessions
  /\ db_sessions' = close(Store).db_sessions
  /\ db_messages' = close(Store).db_messages
  /\ db' = close(Store).db
  /\ raised' = None
  /\ Quiet
  /\ UNCHANGED << connections, sid_seq, boots, terminal, flight, told_deleted >>

\* lifespan before `yield`, in a new process: a new SessionStore that is
\* initialized, a new ConnectionManager, a new WebSocketHandler; nothing of
\* the old process is left (no runner, no task, no future, no connection)
Startup ==
  /\ ~db
  /\ boots < MaxBoots
  /\ LET st == initialize([Store EXCEPT !.sessions = << >>])
     IN  /\ sessions' = st.sessions
         /\ db_sessions' = st.db_sessions
         /\ db_messages' = st.db_messages
         /\ db' = st.db
         /\ boots' = st.boots
  /\ raised' = None
  /\ connections' = {}
  /\ broken' = {}
  /\ runners' = << >>
  /\ pending_permissions' = {}
  /\ run' = [r \in DOMAIN run |-> NoRunner]
  /\ request' = [t \in DOMAIN request |-> NoRequest]
  /\ terminal' = [r \in DOMAIN terminal |-> 0]
  /\ out' = << >> /\ sent' = << >> /\ dropped' = << >>
  /\ UNCHANGED << sid_seq, clock, flight, told_deleted >>

\* (commands and engine messages are handled while the server is up: db)
RestartNext ==
  \/ \E c \in Conns : db /\ Connect(c)
  \/ \E t \in Titles, p \in StartPrompts : db /\ SessionStart(t, p)
  \/ \E s \in Sids : db /\ SessionStop(s)
  \/ \E r \in Rids : db /\ TaskStart(r)
  \/ \E r \in Rids, h \in Handles : db /\ RunInit(r, h)
  \/ \E r \in Rids, sub \in {"success", "error"} : db /\ RunResult(r, sub)
  \/ \E r \in Rids : db /\ RunFinish(r)
  \/ \E r \in Rids : RunCancelled(r)
  \/ Shutdown
  \/ Startup

RestartSpec == Init /\ [][RestartNext]_vars

\* ------------------------------------------------ one run and its transcript
\* A session is started and its single run goes through the engine's
\* messages up to the result, while clients connect and read the history and
\* the wall clock moves as in StoreSpec.
TranscriptNext ==
  \/ \E c \in Conns : Connect(c)
  \/ \E t \in Titles, p \in StartPrompts : SessionStart(t, p)
  \/ \E r \in Rids : TaskStart(r)
  \/ \E r \in Rids, h \in Handles : RunInit(r, h)
  \/ \E r \in Rids : RunAssistant(r)
  \/ \E r \in Rids, sub \in {"success", "error"} : RunResult(r, sub)
  \/ \E r \in Rids : RunFinish(r)
  \/ \E s \in Sids : SessionHistory(s)
  \/ \E t \in 0..MaxClock : ClockSet(t)

TranscriptSpec == Init /\ [][TranscriptNext]_vars

\* --------------------------------------------------- the approval callback
\* Runs whose engine, and whose callers, ask for approval of tools of every
\* kind, while clients connect, answer, stop and delete.
ToolNext ==
  \/ \E c \in Conns : Connect(c)
  \/ \E t \in Titles, p \in StartPrompts : SessionStart(t, p)
  \/ \E r \in Rids : TaskStart(r)
  \/ \E r \in Rids, n \in ToolNames, i \in ToolInputs : EngineCallsCanUseTool(r, n, i)
  \/ \E r \in Rids, n \in ToolNames, i \in ToolInputs : CallCanUseTool(r, n, i)
  \/ \E s \in Sids, t \in Tids, res \in ClientResults : PermissionResponse(s, t, res)
  \/ \E r \in Rids : RunnerAbort(r)
  \/ \E s \in Sids : SessionStop(s)
  \/ \E s \in Sids : SessionDelete(s)

ToolSpec == Init /\ [][ToolNext]_vars

\* ------------------------------------------------- commands as texts
\* Every command reaches the server as a text on a registered connection and
\* goes through the router, which may drop it; meanwhile runs start, take
\* the engine's first message, ask for approval and end when cancelled.
RouterNext ==
  \/ \E c \in Conns : Connect(c)
  \/ \E c \in Conns, data \in Texts : HandleMessage(c, data)
  \/ \E r \in Rids : TaskStart(r)
  \/ \E r \in Rids, h \in Handles : RunInit(r, h)
  \/ \E r \in Rids : EngineAsksPermission(r)
  \/ \E r \in Rids : RunCancelled(r)

RouterSpec == Init /\ [][RouterNext]_vars

\* ------------------------------------------------- the resume handle
\* A session is started, stopped and continued; the init message of each
\* run carries a session id of the engine, a new one, or none.
ResumeNext ==
  \/ \E c \in Conns : Connect(c)
  \/ \E t \in Titles, p \in StartPrompts : SessionStart(t, p)
  \/ \E s \in Sids, p \in ContinuePrompts : SessionContinue(s, p)
  \/ \E s \in Sids : SessionStop(s)
  \/ \E r \in Rids : TaskStart(r)
  \/ \E r \in Rids, h \in ResumeHandles : RunInit(r, h)
  \/ \E r \in Rids, sub \in {"success", "error"} : RunResult(r, sub)
  \/ \E r \in Rids : RunFinish(r)
  \/ \E r \in Rids : RunCancelled(r)

ResumeSpec == Init /\ [][ResumeNext]_vars

\* ------------------------------------------------- sessions side by side
\* Up to MaxPairSessions sessions are started, each with its run; the runs
\* ask for approval (the engine through its callback, a caller through
\* can_use_tool).  In PairSpec clients answer the requests; in AbortPairSpec
\* they stop and delete sessions and lose their sockets.
PairInit ==
  /\ sessions = << >>
  /\ db_sessions = << >>
  /\ db_messages = << >>
  /\ connections = {}
  /\ runners = << >>
  /\ pending_permissions = {}
  /\ run = [r \in Rids |-> NoRunner]
  /\ request = [t \in PairTids |-> NoRequest]
  /\ sid_seq = 0
  /\ out = << >>
  /\ sent = << >>
  /\ dropped = << >>
  /\ broken = {}
  /\ clock = 0
  /\ db = TRUE
  /\ raised = None
  /\ boots = 1
  /\ terminal = [r \in Rids |-> 0]
  /\ flight = NoFlight
  /\ told_deleted = {}

PairNext ==
  \/ \E c \in Conns : Connect(c)
  \/ \E t \in Titles, p \in StartPrompts : SessionStartUpTo(MaxPairSessions, t, p)
  \/ \E r \in Rids : TaskStart(r)
  \/ \E r \in Rids : EngineAsksPermission(r)
  \/ \E r \in Rids : CanUseTool(r)
  \/ \E s \in PairSids, t \in PairTids, res \in ClientResults : PermissionResponse(s, t, res)

PairSpec == PairInit /\ [][PairNext]_vars

AbortPairNext ==
  \/ \E c \in Conns : Connect(c)
  \/ \E c \in Conns : SocketBreak(c)
  \/ \E t \in Titles, p \in StartPrompts : SessionStartUpTo(MaxPairSessions, t, p)
  \/ \E r \in Rids : TaskStart(r)
  \/ \E r \in Rids : EngineAsksPermission(r)
  \/ \E r \in Rids : CanUseTool(r)
  \/ \E s \in PairSids : SessionStop(s)
  \/ \E s \in PairSids : SessionDelete(s)
  \/ \E r \in Rids : RunCancelled(r)

AbortPairSpec == PairInit /\ [][AbortPairNext]_vars

\* ------------------------------------------------- handlers step by step
\* A handler or callback as the event loop runs it: one step is the stretch
\* from one suspension point to the next.  The suspension points are the
\* waits for the database (after a statement has been issued) and the waits
\* inside ConnectionManager.broadcast (the sends of one broadcast are taken
\* as one step).  A connection handles one text at a time; the run's
\* callbacks run in the run's task and end with it when it is cancelled.
Cmd(c) == flight.cmd[c]
Cb(r)  == flight.cb[r]

\* the ids whose session.deleted is among the broadcasts of the step
Told(cx) ==
  told_deleted \cup {cx.sent[i].event.session_id :
                       i \in {j \in DOMAIN cx.sent : cx.sent[j].event.type = "session.deleted"}}

StepCommit(cx) ==
  /\ CommitStep(cx)
  /\ told_deleted' = Told(cx)

\* _emit up to its first suspension, without the test for a deleted session
emit_begin_unguarded(cx, e) ==
  [cx EXCEPT !.st = record_event_side_effects(@, e)]

\* WebSocketHandler._emit up to its first suspension, for an event with a
\* side effect: the test for a deleted session, then the statement of the
\* side effect is issued (the broadcast follows when the database has answered)
emit_begin(cx, e) ==
  IF e.type \in GuardedTypes /\ ~has_live_session(cx.st, e.session_id)
  THEN [cx EXCEPT !.dropped = Append(@, e)]
  ELSE [cx EXCEPT !.st = record_event_side_effects(@, e)]

\* a client names a session in a command once it has been told its id: the
\* session.status of its session.start has been broadcast
Announced(sid) ==
  /\ sid <= sid_seq
  /\ \A c \in Conns :
        ~(Cmd(c).op = "session.start" /\ Cmd(c).sid = sid
            /\ Cmd(c).pc \in {"update", "status", "status.send"})

\* _handle_session_start up to the INSERT of create_session
BeginStart(c, title, prompt) ==
  /\ c \in connections
  /\ Cmd(c).op = "idle"
  /\ sid_seq < MaxSessions
  /\ sid_seq' = sid_seq + 1
  /\ StepCommit(Ctx(create_session(Store, sid_seq + 1, title, None, None, prompt)))
  /\ flight' = [flight EXCEPT !.cmd[c] =
                  [Idle EXCEPT !.op = "session.start", !.pc = "update",
                               !.sid = sid_seq + 1, !.prompt = prompt]]
  /\ UNCHANGED << runners, pending_permissions, run, request >>

\* create_and_start_session: update_session after create_session
StepUpdate(c) ==
  /\ Cmd(c).pc = "update"
  /\ StepCommit(Ctx(update_session(Store, Cmd(c).sid,
                                   [status |-> RUNNING, last_prompt |-> Cmd(c).prompt])))
  /\ flight' = [flight EXCEPT !.cmd[c].pc = "status"]
  /\ UNCHANGED << runners, pending_permissions, run, request, sid_seq >>

\* _handle_session_continue up to the UPDATE of continue_session, or, when
\* continue_session returns an error, up to the broadcast of the first event
BeginContinue(c, sid, prompt) ==
  /\ c \in connections
  /\ Cmd(c).op = "idle"
  /\ Announced(sid)
  /\ LET err == continue_error(Store, sid)
     IN  IF err # None
         THEN IF sid \notin DOMAIN sessions
              THEN /\ StepCommit(emit(Ctx(Store), DeletedEvent(sid)))
                   /\ flight' = [flight EXCEPT !.cmd[c] =
                                   [Idle EXCEPT !.op = "session.continue", !.pc = "error",
                                                !.sid = sid,
                                                !.event = RunnerErrorEvent(sid, err)]]
              ELSE /\ StepCommit(emit(Ctx(Store), RunnerErrorEvent(sid, err)))
                   /\ UNCHANGED flight
         ELSE /\ StepCommit(Ctx(continue_session(Store, sid, prompt)))
              /\ flight' = [flight EXCEPT !.cmd[c] =
                              [Idle EXCEPT !.op = "session.continue", !.pc = "status",
                                           !.sid = sid, !.prompt = prompt]]
  /\ UNCHANGED << runners, pending_permissions, run, request, sid_seq >>

\* _emit_runner_error after _emit_session_deleted
StepError(c) ==
  /\ Cmd(c).pc = "error"
  /\ StepCommit(emit(Ctx(Store), Cmd(c).event))
  /\ flight' = [flight EXCEPT !.cmd[c] = Idle]
  /\ UNCHANGED << runners, pending_permissions, run, request, sid_seq >>

\* _emit_session_status(session, RUNNING) of start and continue, up to the
\* UPDATE of its side effect; when the session is no longer in memory the
\* event and the user prompt after it are dropped without a suspension and
\* _start_runner follows at once
StepStatus(c) ==
  /\ Cmd(c).pc = "status"
  /\ LET sid == Cmd(c).sid
         cx1 == emit_begin(Ctx(Store), StatusEvent(sid, RUNNING, None, 0))
     IN  IF has_live_session(Store, sid)
         THEN /\ StepCommit(cx1)
              /\ flight' = [flight EXCEPT !.cmd[c].pc = "status.send"]
              /\ UNCHANGED << runners, run >>
         ELSE /\ FreeRids # {}
              /\ StepCommit(emit_begin(cx1, UserPromptEvent(sid, Cmd(c).prompt)))
              /\ start_runner(sid)
              /\ flight' = [flight EXCEPT !.cmd[c] = Idle]
  /\ UNCHANGED << pending_permissions, request, sid_seq >>

\* the broadcast of that session.status
StepStatusSend(c) ==
  /\ Cmd(c).pc = "status.send"
  /\ StepCommit(broadcast(Ctx(Store), StatusEvent(Cmd(c).sid, RUNNING, None, 0)))
  /\ flight' = [flight EXCEPT !.cmd[c].pc = "prompt"]
  /\ UNCHANGED << runners, pending_permissions, run, request, sid_seq >>

\* _emit_user_prompt up to the INSERT of its side effect; a dropped event is
\* followed by _start_runner at once
StepPrompt(c) ==
  /\ Cmd(c).pc = "prompt"
  /\ LET sid == Cmd(c).sid
     IN  /\ StepCommit(emit_begin(Ctx(Store), UserPromptEvent(sid, Cmd(c).prompt)))
         /\ IF has_live_session(Store, sid)
            THEN /\ flight' = [flight EXCEPT !.cmd[c].pc = "prompt.send"]
                 /\ UNCHANGED << runners, run >>
            ELSE /\ FreeRids # {}
                 /\ start_runner(sid)
                 /\ flight' = [flight EXCEPT !.cmd[c] = Idle]
  /\ UNCHANGED << pending_permissions, request, sid_seq >>

\* the broadcast of that stream.user_prompt
StepPromptSend(c) ==
  /\ Cmd(c).pc = "prompt.send"
  /\ StepCommit(broadcast(Ctx(Store), UserPromptEvent(Cmd(c).sid, Cmd(c).prompt)))
  /\ flight' = [flight EXCEPT !.cmd[c].pc = "launch"]
  /\ UNCHANGED << runners, pending_permissions, run, request, sid_seq >>

\* _start_runner, the last statement of start and continue
StepLaunch(c) ==
  /\ Cmd(c).pc = "launch"
  /\ FreeRids # {}
  /\ start_runner(Cmd(c).sid)
  /\ StepCommit(Ctx(Store))
  /\ flight' = [flight EXCEPT !.cmd[c] = Idle]
  /\ UNCHANGED << pending_permissions, request, sid_seq >>

\* _handle_session_delete that does not call service.delete_session
BeginDelete_keeps_session(c, sid) ==
  /\ c \in connections
  /\ Cmd(c).op = "idle"
  /\ Announced(sid)
  /\ pop_and_abort(sid)
  /\ StepCommit(Ctx(Store))
  /\ flight' = [flight EXCEPT !.cmd[c] =
                  [Idle EXCEPT !.op = "session.delete", !.pc = "deleted", !.sid = sid]]
  /\ UNCHANGED << pending_permissions, sid_seq >>

\* _handle_session_delete up to the DELETEs of delete_session: the runner is
\* popped and aborted, the session leaves memory, the statements are issued
BeginDelete(c, sid) ==
  /\ c \in connections
  /\ Cmd(c).op = "idle"
  /\ Announced(sid)
  /\ pop_and_abort(sid)
  /\ StepCommit(Ctx(delete_session(Store, sid)))
  /\ flight' = [flight EXCEPT !.cmd[c] =
                  [Idle EXCEPT !.op = "session.delete", !.pc = "deleted", !.sid = sid]]
  /\ UNCHANGED << pending_permissions, sid_seq >>

\* _emit_session_deleted, the last statement of delete
StepDeleted(c) ==
  /\ Cmd(c).pc = "deleted"
  /\ StepCommit(emit(Ctx(Store), DeletedEvent(Cmd(c).sid)))
  /\ flight' = [flight EXCEPT !.cmd[c] = Idle]
  /\ UNCHANGED << runners, pending_permissions, run, request, sid_seq >>

\* _handle_session_history up to the SELECTs of get_session_history
BeginHistory(c, sid) ==
  /\ c \in connections
  /\ Cmd(c).op = "idle"
  /\ sid <= sid_seq
  /\ \E result \in get_session_history(Store, sid) :
        flight' = [flight EXCEPT !.cmd[c] =
                     [Idle EXCEPT !.op = "session.history", !.pc = "history", !.sid = sid,
                                  !.event = IF result = NoHistory
                                            THEN DeletedEvent(sid)
                                            ELSE HistoryEvent(sid, result.status,
                                                              result.messages)]]
  /\ StepCommit(Ctx(Store))
  /\ UNCHANGED << runners, pending_permissions, run, request, sid_seq >>

\* the event _handle_session_history answers with
StepHistory(c) ==
  /\ Cmd(c).pc = "history"
  /\ StepCommit(emit(Ctx(Store), Cmd(c).event))
  /\ flight' = [flight EXCEPT !.cmd[c] = Idle]
  /\ UNCHANGED << runners, pending_permissions, run, request, sid_seq >>

\* one iteration of the message loop for the init message, up to the UPDATE
\* of on_session_update
BeginRunInit(r, h) ==
  /\ run[r].task = "recv"
  /\ Resumes(r)
  /\ run[r].events < MaxEvents
  /\ Cb(r).pc = "none"
  /\ IF run[r].abort_event
     THEN /\ run' = [run EXCEPT ![r].task = "closing"]
          /\ StepCommit(Ctx(Store))
          /\ UNCHANGED flight
     ELSE /\ run' = [run EXCEPT ![r].events = @ + 1]
          /\ StepCommit(Ctx(update_session(Store, run[r].session_id,
                                           [claude_session_id |-> h])))
          /\ flight' = [flight EXCEPT !.cb[r] =
                          [NoCallback EXCEPT
                             !.pc = "message",
                             !.event = MessageEvent(run[r].session_id,
                                                    Msg("system", "init", h), r)]]
  /\ UNCHANGED << runners, pending_permissions, request, sid_seq >>

\* on_message for the message the callback holds, up to the INSERT of its
\* side effect
StepRunEmit(r) ==
  /\ Cb(r).pc = "message"
  /\ Resumes(r)
  /\ StepCommit(emit_begin(Ctx(Store), Cb(r).event))
  /\ flight' = [flight EXCEPT !.cb[r] =
                  IF has_live_session(Store, Cb(r).event.session_id)
                  THEN [@ EXCEPT !.pc = "send"]
                  ELSE NoCallback]
  /\ UNCHANGED << runners, pending_permissions, run, request, sid_seq >>

\* one iteration of the message loop for an assistant message, up to the
\* INSERT of on_message's side effect
BeginRunAssistant(r) ==
  /\ run[r].task = "recv"
  /\ Resumes(r)
  /\ run[r].events < MaxEvents
  /\ Cb(r).pc = "none"
  /\ LET e == MessageEvent(run[r].session_id, Msg("assistant", None, None), r)
     IN  IF run[r].abort_event
         THEN /\ run' = [run EXCEPT ![r].task = "closing"]
              /\ StepCommit(Ctx(Store))
              /\ UNCHANGED flight
         ELSE /\ run' = [run EXCEPT ![r].events = @ + 1]
              /\ StepCommit(emit_begin(Ctx(Store), e))
              /\ flight' = [flight EXCEPT !.cb[r] =
                              IF has_live_session(Store, e.session_id)
                              THEN [NoCallback EXCEPT !.pc = "send", !.event = e]
                              ELSE NoCallback]
  /\ UNCHANGED << runners, pending_permissions, request, sid_seq >>

\* the broadcast of the message the callback holds
StepRunSend(r) ==
  /\ Cb(r).pc = "send"
  /\ Resumes(r)
  /\ StepCommit(broadcast(Ctx(Store), Cb(r).event))
  /\ flight' = [flight EXCEPT !.cb[r] = NoCallback]
  /\ UNCHANGED << runners, pending_permissions, run, request, sid_seq >>

\* on_permission_request, called by _can_use_tool in a task of the engine's
\* client, up to the end of `await self._emit(...)`: the event is broadcast;
\* when the event is dropped there is no suspension and the future is
\* registered at once
BeginAsk(r) ==
  /\ run[r].task = "recv"
  /\ run[r].client
  /\ FreeTids # {}
  /\ LET tid == NewTid
         sid == run[r].session_id
         live == has_live_session(Store, sid)
     IN  /\ StepCommit(emit(Ctx(Store), PermissionRequestEvent(sid, tid, r)))
         /\ request' = [request EXCEPT
                          ![tid].run = r, ![tid].session_id = sid, ![tid].via = "sdk",
                          ![tid].callback = IF live THEN "emitting" ELSE "waiting",
                          ![tid].hfuture = IF live THEN NOFUTURE ELSE PENDING]
         /\ pending_permissions' = IF live THEN pending_permissions
                                   ELSE pending_permissions \cup {<<sid, tid>>}
  /\ UNCHANGED << runners, run, sid_seq, flight >>

\* on_permission_request after `await self._emit(...)`: the future is made
\* and registered in _pending_permissions, then awaited
StepAskRegister(tid) ==
  /\ request[tid].callback = "emitting"
  /\ request' = [request EXCEPT ![tid].callback = "waiting", ![tid].hfuture = PENDING]
  /\ pending_permissions' = pending_permissions \cup {<<request[tid].session_id, tid>>}
  /\ StepCommit(Ctx(Store))
  /\ UNCHANGED << runners, run, sid_seq, flight >>

\* the task is resumed with CancelledError inside or outside a callback
StepRunCancelled(r) ==
  /\ run[r].task \in {"ready", "recv", "closing"}
  /\ run[r].cancel
  /\ run' = [run EXCEPT ![r].task = "done", ![r].client = FALSE, ![r].cancel = FALSE]
  /\ request' = ClosedRequests(request, r)
  /\ pending_permissions' = ClosedPending(request, pending_permissions, r)
  /\ StepCommit(Ctx(Store))
  /\ flight' = [flight EXCEPT !.cb[r] = NoCallback]
  /\ UNCHANGED << runners, sid_seq >>

\* two clients are connected and nothing has been asked yet
StepInit ==
  /\ sessions = << >>
  /\ db_sessions = << >>
  /\ db_messages = << >>
  /\ connections = Conns
  /\ runners = << >>
  /\ pending_permissions = {}
  /\ run = [r \in Rids |-> NoRunner]
  /\ request = [t \in Tids |-> NoRequest]
  /\ sid_seq = 0
  /\ out = << >>
  /\ sent = << >>
  /\ dropped = << >>
  /\ broken = {}
  /\ clock = 0
  /\ db = TRUE
  /\ raised = None
  /\ boots = 1
  /\ terminal = [r \in Rids |-> 0]
  /\ flight = NoFlight
  /\ told_deleted = {}

\* start, continue and delete of two connections and the callbacks of the
\* runs, every one of them step by step
StepNext ==
  \/ \E c \in Conns, t \in Titles, p \in StartPrompts : BeginStart(c, t, p)
  \/ \E c \in Conns : StepUpdate(c)
  \/ \E c \in Conns, s \in Sids, p \in ContinuePrompts : BeginContinue(c, s, p)
  \/ \E c \in Conns : StepError(c)
  \/ \E c \in Conns : StepStatus(c)
  \/ \E c \in Conns : StepStatusSend(c)
  \/ \E c \in Conns : StepPrompt(c)
  \/ \E c \in Conns : StepPromptSend(c)
  \/ \E c \in Conns : StepLaunch(c)
  \/ \E c \in Conns, s \in Sids : BeginDelete(c, s)
  \/ \E c \in Conns : StepDeleted(c)
  \/ \E r \in Rids : TaskStart(r)
  \/ \E r \in Rids, h \in Handles : BeginRunInit(r, h)
  \/ \E r \in Rids : StepRunEmit(r)
  \/ \E r \in Rids : StepRunSend(r)
  \/ \E r \in Rids : StepRunCancelled(r)

StepSpec == StepInit /\ [][StepNext]_vars

\* the permission question of a run step by step, between whole commands
AskNext ==
  \/ \E c \in Conns : Connect(c)
  \/ \E t \in Titles, p \in StartPrompts : SessionStart(t, p)
  \/ \E s \in Sids : SessionDelete(s)
  \/ \E c \in Conns, s \in Sids : BeginHistory(c, s)
  \/ \E c \in Conns : StepHistory(c)
  \/ \E r \in Rids : TaskStart(r)
  \/ \E r \in Rids : BeginRunAssistant(r)
  \/ \E r \in Rids : StepRunSend(r)
  \/ \E r \in Rids : BeginAsk(r)
  \/ \E t \in Tids : StepAskRegister(t)
  \/ \E s \in Sids, t \in Tids, res \in ClientResults : PermissionResponse(s, t, res)
  \/ \E r \in Rids : StepRunCancelled(r)

AskSpec == Init /\ [][AskNext]_vars

\* ================================================================ claims
Live(s)      == s \in DOMAIN sessions
Active(r)    == run[r].task \in {"ready", "recv", "closing"} /\ ~run[r].cancel
Waiting(t)   == request[t].callback = "waiting"
AbortCalled(r) == run'[r].abort_calls > run[r].abort_calls
EventsBy(o, r, types) == {i \in DOMAIN o : o[i].by = r /\ o[i].type \in types}

\* C1: when a client answers a request whose callback is waiting, the pending
\* slot is completed with the client's result (stated as the claim states it:
\* an answered request's awaited future holds that answer).
C1_AnswerCompletesSlot ==
  \A t \in Tids : request[t].answer # NOFUTURE => request[t].hfuture = request[t].answer

\* C2: every pending permission record is eventually resolved; none stays
\* pending forever (checked under LiveSpec: tasks run, asked clients answer).
C2_PendingEventuallyResolved ==
  \A t \in Tids : Waiting(t) ~> ~Waiting(t)

\* C3: in every reachable state each session has at most one active run.
C3_AtMostOneActiveRun ==
  \A s \in Sids : Cardinality({r \in Rids : run[r].session_id = s /\ Active(r)}) <= 1

\* C4: every change of a session's status is Idle->Running, Running->Completed,
\* Running->Error or Running->Idle.
C4_StatusStateMachine ==
  [][\A s \in Sids :
       (Live(s) /\ s \in DOMAIN sessions' /\ sessions'[s].status # sessions[s].status)
       => << sessions[s].status, sessions'[s].status >> \in
            { <<IDLE, RUNNING>>, <<RUNNING, COMPLETED>>, <<RUNNING, ERROR>>,
              <<RUNNING, IDLE>> }]_vars

C6_StopSuppressesCompleted ==
  [][/\ \A s \in Sids :
          (/\ Live(s) /\ s \in DOMAIN runners /\ Active(runners[s])
           /\ SessionStop(s))
          => /\ sessions'[s].status = IDLE
             /\ db_sessions'[s].status = IDLE
             /\ out' = << StatusEvent(s, IDLE, None, 0) >>
             /\ run'[runners[s]].abort_calls > 0
     /\ \A r \in Rids :
          run[r].abort_calls > 0
          => \A i \in EventsBy(out', r, {"session.status"}) : out'[i].status # COMPLETED]_vars

\* the state a stop leaves when it interrupts a run inside its receive loop
C6_Witness ==
  \E s \in Sids, r \in Rids :
    /\ Live(s) /\ sessions[s].status = IDLE
    /\ out = << StatusEvent(s, IDLE, None, 0) >>
    /\ run[r].session_id = s /\ run[r].task = "recv" /\ run[r].cancel
    /\ run[r].abort_calls > 0

\* a step of the task of run r
TaskStep(r) ==
  \/ TaskStart(r)
  \/ \E h \in Handles : RunInit(r, h)
  \/ RunAssistant(r)
  \/ \E sub \in {"success", "error"} : RunResult(r, sub)
  \/ RunFinish(r)
  \/ RunFault(r)
  \/ RunCancelled(r)

\* C7: once abort() has been called on a run, that run emits no further
\* session.status or stream.message event, and its task writes nothing to the
\* store.
C7_NoEmissionAfterAbort ==
  [][\A r \in Rids :
       run[r].abort_calls > 0
       => /\ EventsBy(out', r, {"session.status", "stream.message"}) = {}
          /\ TaskStep(r) => UNCHANGED << sessions, db_sessions, db_messages >>]_vars

\* a run aborted in its receive loop, with engine output still to come, has
\* been resumed and has finished
C7_Witness ==
  \E r \in Rids :
    /\ run[r].abort_calls > 0 /\ run[r].task = "done"
    /\ run[r].events < MaxEvents /\ run[r].interrupted

\* C8: when abort() is called on a session's run, every approval request
\* pending for that session is completed with deny "Session aborted" and no
\* pending record of the session remains.
C8_AbortDeniesPending ==
  [][\A r \in Rids :
       AbortCalled(r)
       => \A t \in Tids :
            (Waiting(t) /\ request[t].session_id = run[r].session_id)
            => /\ request'[t].hfuture = AbortDeny
               /\ << request[t].session_id, t >> \notin pending_permissions']_vars

C11_StartScenario ==
  [][/\ \A t \in Titles, p \in StartPrompts :
          SessionStart(t, p)
          => LET sid == sid_seq'
             IN  /\ sid \notin DOMAIN sessions /\ sid \notin DOMAIN db_sessions
                 /\ sid \in DOMAIN sessions' /\ sid \in DOMAIN db_sessions'
                 /\ sessions'[sid] = [NewSession(t, None, None, p) EXCEPT !.status = RUNNING]
                 /\ db_sessions'[sid] = sessions'[sid]
                 /\ out' = << StatusEvent(sid, RUNNING, None, 0), UserPromptEvent(sid, p) >>
                 /\ Rows(Store', sid) = << UserPromptMsg(p) >>
                 /\ sid \in DOMAIN runners' /\ run'[runners'[sid]].task = "ready"
                 /\ \E row \in list_sessions(Store') : row.id = sid /\ row.status = RUNNING
     /\ SessionList => out' = << ListEvent(list_sessions(Store)) >>]_vars

\* a session.list answered right after a session.start: the run has not
\* started and the list reports the session Running
C11_Witness ==
  \E s \in Sids :
    /\ Live(s) /\ s \in DOMAIN runners /\ run[runners[s]].task = "ready"
    /\ Rows(Store, s) = << UserPromptMsg("p1") >>
    /\ Len(out) = 1 /\ out[1].type = "session.list"
    /\ \E row \in out[1].body : row.id = s /\ row.status = RUNNING /\ row.title = "T"
\* how many rows of table messages have the id x
RowsWithId(st, x) ==
  Cardinality({<< s, i >> \in UNION {{<< s2, i2 >> : i2 \in DOMAIN st.db_messages[s2]} :
                                      s2 \in DOMAIN st.db_messages} :
               st.db_messages[s][i].id = x})

\* C12: after every record_message call the table holds exactly one row with
\* the message's id; when a row with that id was already there the call
\* changes nothing (the stored entry keeps its data and its place), and
\* otherwise it appends one row and alters no other.
C12_RecordIdempotent ==
  [][\A s \in Sids, m \in StoreMessages :
       StoreRecord(s, m)
       => LET id == MessageId(Store, s, m)
          IN  /\ RowsWithId(Store', id) = 1
              /\ id \in MessageIds(Store) => db_messages' = db_messages
              /\ id \notin MessageIds(Store)
                 => /\ Len(Table(Store', s)) = Len(Table(Store, s)) + 1
                    /\ \A i \in DOMAIN Table(Store, s) :
                          Table(Store', s)[i] = Table(Store, s)[i]
                    /\ Rows(Store', s)[Len(Table(Store', s))] = m]_vars

\* rows left by record_message of id u1 with value "a", any number of further
\* calls with id u1, and one call with id u2, made at another clock reading
C12_Witness ==
  \E s \in Sids :
    /\ Len(Table(Store, s)) = 2
    /\ Table(Store, s)[1].id = [uuid |-> "u1", sid |-> 0, n |-> 0]
    /\ Table(Store, s)[1].data.value = "a"
    /\ Table(Store, s)[2].id.uuid = "u2"
    /\ clock # Table(Store, s)[1].created_at

\* C13: the messages a history read returns are the messages recorded for the
\* session, in the order in which they were recorded.
C13_HistoryInRecordedOrder ==
  [][\A s \in Sids :
       (s \in DOMAIN db_sessions /\ SessionHistory(s))
       => out' = << HistoryEvent(s, db_sessions[s].status, Rows(Store, s)) >>]_vars
\* C14: delete_session removes the session from memory and from table
\* sessions together with all of its rows of table messages: afterwards get
\* on the id returns absent, history for it returns absent and the list does
\* not hold it; and a session absent from memory is never in the database.
C14_DeleteRemovesEverywhere ==
  [][/\ \A s \in Sids :
          StoreDelete(s)
          => /\ s \notin DOMAIN sessions'
             /\ s \notin DOMAIN db_sessions'
             /\ Table(Store', s) = << >>
             /\ get_session_history(Store', s) = {NoHistory}
             /\ \A row \in list_sessions(Store') : row.id # s
             /\ \A s2 \in Sids \ {s} :
                   /\ (s2 \in DOMAIN sessions) = (s2 \in DOMAIN sessions')
                   /\ Table(Store', s2) = Table(Store, s2)
     /\ \A s \in Sids :
          s \notin DOMAIN sessions'
          => /\ s \notin DOMAIN db_sessions'
             /\ get_session_history(Store', s) = {NoHistory}]_vars

\* a created session has been deleted, and a history read for its id has
\* been answered with session.deleted
C14_Witness ==
  /\ sid_seq >= 1
  /\ 1 \notin DOMAIN sessions /\ 1 \notin DOMAIN db_sessions
  /\ Table(Store, 1) = << >>
  /\ out = << DeletedEvent(1) >>

\* C15: session.delete on a session with an active run aborts that run,
\* removes the session, broadcasts session.deleted with its id, and leaves
\* the session absent with no run of it active.
C15_DeleteAbortsRun ==
  [][\A s \in Sids :
       (/\ Live(s) /\ s \in DOMAIN runners /\ Active(runners[s])
        /\ SessionDelete(s))
       => /\ run'[runners[s]].abort_calls > 0
          /\ s \notin DOMAIN sessions' /\ s \notin DOMAIN db_sessions'
          /\ out' = << DeletedEvent(s) >>
          /\ s \notin DOMAIN runners'
          /\ \A r \in Rids : run'[r].session_id = s => ~Active(r)']_vars
C17_EventsOfAbsentSessionDropped ==
  [][/\ \A i \in DOMAIN out' :
          out'[i].type \in GuardedTypes => out'[i].session_id \in DOMAIN sessions'
     /\ \A i \in DOMAIN dropped' :
          /\ dropped'[i].type \in GuardedTypes
          /\ dropped'[i].session_id \notin DOMAIN sessions
     /\ \A r \in Rids :
          (run[r].session_id \notin DOMAIN sessions /\ (TaskStep(r) \/ EngineAsksPermission(r)))
          => /\ UNCHANGED << sessions, db_sessions, db_messages >>
             /\ out' = << >>
             /\ sent' = << >>]_vars

\* a run whose session has been deleted has produced a result: the
\* stream.message and the session.status were both dropped
C17_Witness ==
  \E r \in Rids :
    /\ run[r].session_id \notin DOMAIN sessions
    /\ run[r].session_id \notin DOMAIN db_messages
    /\ run[r].task = "closing"
    /\ Len(dropped) = 2
    /\ dropped[1].type = "stream.message" /\ dropped[1].by = r
    /\ dropped[2].type = "session.status" /\ dropped[2].by = r
    /\ out = << >>
DurableTypes == {"session.status", "stream.message", "stream.user_prompt"}

\* C18: when a session.status, stream.message or stream.user_prompt event is
\* sent, the database already holds its side effect (the status in the
\* session's row, the message or the prompt in the transcript), and still
\* holds the last of them when the step is over.
C18_PersistedBeforeBroadcast ==
  [][/\ \A i \in DOMAIN sent' :
          sent'[i].event.type \in DurableTypes => sent'[i].stored
     /\ \A i \in DOMAIN sent' :
          (sent'[i].event.type \in DurableTypes /\ i = Len(sent'))
          => Stored(Store', sent'[i].event)]_vars

\* a run's result has reached a client: the stream.message and then the
\* session.status, each stored when it was sent
C18_Witness ==
  /\ Len(sent) = 2
  /\ sent[1].event.type = "stream.message" /\ sent[1].event.by # 0
  /\ sent[2].event.type = "session.status" /\ sent[2].event.by # 0
  /\ sent[1].to # {} /\ sent[2].to # {}
  /\ sent[1].stored /\ sent[2].stored
\* C19: in a broadcast the connections whose send fails are exactly the ones
\* removed from the connection set; every other connection of the snapshot
\* receives the event, and the broadcast returns, so that the handler goes on
\* to its next event, which the remaining connections receive.
C19_SendFailureIsolated ==
  [][sent' # << >> =>
       /\ Len(sent') = Len(out')
       /\ \A i \in DOMAIN sent' :
            LET snapshot == IF i = 1 THEN connections ELSE sent'[i - 1].to
            IN  /\ sent'[i].event = out'[i]
                /\ sent'[i].failed = snapshot \cap broken
                /\ sent'[i].to = snapshot \ broken
       /\ connections' = connections \ broken]_vars

\* session.start with two connections of which one has a broken socket: the
\* status event fails on one and reaches the other, and the prompt event
\* that follows reaches the one that is left
C19_Witness ==
  /\ Len(sent) = 2
  /\ sent[1].event.type = "session.status"
  /\ sent[1].failed # {} /\ sent[1].to # {}
  /\ sent[2].event.type = "stream.user_prompt"
  /\ sent[2].failed = {} /\ sent[2].to = sent[1].to
  /\ connections = sent[1].to
\* C20: within a session's single run, the engine's messages are sent to the
\* connections and appear in the transcript in the order in which the engine
\* produced them: the result, which the engine produces last, is sent after,
\* and is listed by a history read after, the system and assistant messages.
C20_EngineOrder ==
  [][/\ \A r \in Rids, sub \in {"success", "error"} :
          (RunResult(r, sub) /\ sent' # << >>)
          => /\ sent'[1].event = MessageEvent(run[r].session_id, Msg("result", sub, None), r)
             /\ sent'[1].to = connections \ broken
     /\ \A s \in Sids :
          (s \in DOMAIN db_sessions /\ SessionHistory(s))
          => LET messages == out'[1].body
             IN  \A i, j \in DOMAIN messages :
                    (i < j /\ messages[i].type = "result")
                    => messages[j].type \notin {"system", "assistant"}]_vars
\* C21: an approval request for a tool other than AskUserQuestion, whether it
\* comes from the engine or through the runner's external interface, is
\* answered at once with allow and the input as given; no pending record is
\* created in the runner or in the router, and no event is emitted.
C21_OtherToolsAutoAllowed ==
  [][\A r \in Rids, n \in ToolNames \ {AskUserQuestion}, i \in ToolInputs :
       (EngineCallsCanUseTool(r, n, i) \/ CallCanUseTool(r, n, i))
       => /\ run'[r].reply = [behavior |-> "allow", updatedInput |-> i]
          /\ run'[r].pending = run[r].pending
          /\ request' = request
          /\ pending_permissions' = pending_permissions
          /\ out' = << >> /\ sent' = << >>]_vars

\* a run has been given allow for a tool with input i2 while no approval
\* request was ever created and a client is connected
C21_Witness ==
  \E r \in Rids :
    /\ run[r].task = "recv"
    /\ run[r].reply = [behavior |-> "allow", updatedInput |-> "i2"]
    /\ \A t \in Tids : request[t] = NoRequest
    /\ pending_permissions = {}
    /\ connections # {}
    /\ out = << >>
\* C22: a failure raised while driving a run that has not been aborted sets
\* the session's status to error and broadcasts a runner.error event; the
\* failure of an aborted run changes no status and emits nothing; in both
\* cases the run's client handle is cleared.
C22_EngineFaultReported ==
  [][\A r \in Rids :
       RunFault(r)
       => /\ ~run'[r].client
          /\ IF run[r].abort_event
             THEN /\ out' = << >>
                  /\ sessions' = sessions /\ db_sessions' = db_sessions
             ELSE /\ run[r].session_id \in DOMAIN sessions'
                  /\ sessions'[run[r].session_id].status = ERROR
                  /\ \E i \in DOMAIN out' :
                        /\ out'[i].type = "runner.error"
                        /\ out'[i].session_id = run[r].session_id]_vars
\* C23: session.continue, session.stop, session.delete and session.history
\* for a session id the server does not know each hand at least one
\* session.deleted or runner.error event for that id to the broadcaster.
C23_UnknownSessionAnswered ==
  [][\A s \in Sids :
       (/\ s \notin DOMAIN sessions
        /\ s \notin DOMAIN db_sessions
        /\ \/ \E p \in ContinuePrompts : SessionContinue(s, p)
           \/ SessionStop(s)
           \/ SessionDelete(s)
           \/ SessionHistory(s))
       => \E i \in DOMAIN out' :
             /\ out'[i].type \in {"session.deleted", "runner.error"}
             /\ out'[i].session_id = s]_vars
\* texts that do not decode, name no command, or carry a payload the
\* command's payload model rejects
Malformed(data) ==
  \/ ~data.decodes
  \/ data.type \notin Commands
  \/ data.type # "session.list" /\ ~data.valid

\* C24: an inbound text that does not decode, names an unknown command or
\* carries a payload that fails validation changes no session, no row, no
\* run, no runner registry entry and no pending permission, hands no event to
\* the broadcaster, and leaves the connection it came on registered.
C24_MalformedDropped ==
  [][\A c \in Conns, data \in Texts :
       (Malformed(data) /\ HandleMessage(c, data))
       => /\ UNCHANGED << sessions, db_sessions, db_messages, runners, run,
                          request, pending_permissions, connections >>
          /\ c \in connections'
          /\ out' = << >> /\ sent' = << >>]_vars

\* a delete command with a rejected payload has just been dropped while its
\* session has a run waiting for an answer, and the connection is registered
C24_Witness ==
  \E s \in Sids :
    /\ dropped = << DroppedText(Text(TRUE, "session.delete", FALSE, s)) >>
    /\ s \in DOMAIN sessions /\ s \in DOMAIN runners
    /\ \E t \in Tids : request[t].callback = "waiting" /\ request[t].session_id = s
    /\ connections # {}
\* the request has been settled: one of its futures is done
Resolved(t) ==
  \/ request[t].rfuture \notin {PENDING, NOFUTURE}
  \/ request[t].hfuture \notin {PENDING, NOFUTURE}

\* C25: permission.response for a session that is not in memory, for a
\* session without a registered run, or for a toolUseId that was never issued
\* or is already resolved, raises nothing (no future is set twice), emits no
\* event and changes no session, row, run, registry entry or pending record.
C25_LateAnswerIsNoOp ==
  [][\A s \in Sids, t \in Tids, res \in ClientResults :
       (/\ PermissionResponse(s, t, res)
        /\ \/ s \notin DOMAIN sessions
           \/ s \notin DOMAIN runners
           \/ request[t].callback = "unused"
           \/ Resolved(t))
       => /\ UNCHANGED << sessions, db_sessions, db_messages, runners,
                          pending_permissions, run, connections >>
          /\ \A u \in Tids : [request'[u] EXCEPT !.answer = request[u].answer] = request[u]
          /\ out' = << >> /\ sent' = << >>]_vars

\* a request made through can_use_tool was denied by abort, and the client's
\* answer arrived afterwards: the future still holds the denial
C25_Witness ==
  \E t \in Tids :
    /\ request[t].via = "ext"
    /\ request[t].rfuture = AbortDeny
    /\ request[t].answer \in ClientResults
\* session s holds a pending approval request under tool_use_id t
HoldsPending(s, t) ==
  /\ request[t].session_id = s
  /\ request[t].callback = "waiting"
  /\ request[t].hfuture = PENDING
  /\ request[t].rfuture \in {PENDING, NOFUTURE}

\* C26: while sessions A and B each hold a pending approval request, under
\* distinct tool_use_ids, an answer to B's request leaves A's request as it
\* is (still pending, still registered) and leaves every run of A as it is.
C26_AnswerLeavesOtherSession ==
  [][\A a, b \in PairSids, ta, tb \in PairTids, res \in ClientResults :
       (/\ a # b /\ ta # tb
        /\ HoldsPending(a, ta) /\ HoldsPending(b, tb)
        /\ PermissionResponse(b, tb, res))
       => /\ request'[ta] = request[ta]
          /\ << a, ta >> \in pending_permissions'
          /\ \A r \in Rids : run[r].session_id = a => run'[r] = run[r]
          /\ sessions'[a] = sessions[a]]_vars

\* B's request, made through can_use_tool, holds the client's answer while
\* A's request, made the same way, is still pending in A's runner
C26_Witness ==
  \E a, b \in PairSids, ta, tb \in PairTids :
    /\ a # b /\ ta # tb
    /\ request[tb].session_id = b /\ request[tb].via = "ext"
    /\ request[tb].answer \in ClientResults
    /\ request[tb].rfuture = request[tb].answer
    /\ request[ta].session_id = a /\ request[ta].via = "ext"
    /\ request[ta].rfuture = PENDING /\ request[ta].answer = NOFUTURE
    /\ \E r \in Rids : run[r].session_id = a /\ run[r].pending = {ta}
\* what belongs to session b is as it was: its runs, its status in memory
\* and in the database, its transcript, its requests and its pending entries
OtherSessionUnchanged(b) ==
  /\ \A r \in Rids : run[r].session_id = b => run'[r] = run[r]
  /\ (b \in DOMAIN runners) = (b \in DOMAIN runners')
  /\ b \in DOMAIN runners => runners'[b] = runners[b]
  /\ (b \in DOMAIN sessions) = (b \in DOMAIN sessions')
  /\ b \in DOMAIN sessions => sessions'[b] = sessions[b]
  /\ (b \in DOMAIN db_sessions) = (b \in DOMAIN db_sessions')
  /\ b \in DOMAIN db_sessions => db_sessions'[b] = db_sessions[b]
  /\ Table(Store', b) = Table(Store, b)
  /\ \A t \in PairTids : request[t].session_id = b => request'[t] = request[t]
  /\ \A t \in PairTids : (<< b, t >> \in pending_permissions) = (<< b, t >> \in pending_permissions')

\* C27 (as claimed): session.stop and session.delete for session A leave the
\* runs, status, transcript and pending permissions of every other session,
\* and the set of connections, unchanged.
C27_AbortTouchesOnlyItsSession ==
  [][\A a \in PairSids :
       (SessionStop(a) \/ SessionDelete(a))
       => /\ \A b \in PairSids \ {a} : OtherSessionUnchanged(b)
          /\ connections' = connections]_vars

\* C27 (amended): session.stop and session.delete for session A leave the
\* runs, status, transcript and pending permissions of every other session
\* unchanged, and remove no connection other than those on which sending the
\* command's event fails.
C27_AbortTouchesOnlyItsSessionAndDeadSockets ==
  [][\A a \in PairSids :
       (SessionStop(a) \/ SessionDelete(a))
       => /\ \A b \in PairSids \ {a} : OtherSessionUnchanged(b)
          /\ connections' \subseteq connections
          /\ connections \ broken \subseteq connections'
          /\ (out' = << >> => connections' = connections)]_vars

\* session A has been stopped while its run held a pending request: A's run
\* is aborted and its request denied; B still runs with its request pending;
\* the status event failed on one socket and reached the other connection
C27_Witness ==
  \E a, b \in PairSids, ta, tb \in PairTids, ra, rb \in Rids :
    /\ a # b /\ ta # tb /\ ra # rb
    /\ Len(sent) = 1 /\ sent[1].event = StatusEvent(a, IDLE, None, 0)
    /\ sent[1].failed # {} /\ sent[1].to # {} /\ connections = sent[1].to
    /\ run[ra].session_id = a /\ run[ra].abort_event /\ run[ra].cancel
    /\ request[ta].run = ra /\ request[ta].rfuture = AbortDeny
    /\ run[rb].session_id = b /\ ~run[rb].abort_event /\ run[rb].pending = {tb}
    /\ request[tb].rfuture = PENDING
    /\ sessions[b].status = RUNNING /\ b \in DOMAIN runners
\* C28: once the session's engine session id (claude_session_id) is set, it
\* is set in every later state in which the session exists, in memory and in
\* its row; it may change to another id but never to none.
C28_ResumeIdNeverCleared ==
  [][\A s \in Sids :
       /\ (/\ s \in DOMAIN sessions /\ s \in DOMAIN sessions'
           /\ sessions[s].claude_session_id # None)
          => sessions'[s].claude_session_id # None
       /\ (/\ s \in DOMAIN db_sessions /\ s \in DOMAIN db_sessions'
           /\ db_sessions[s].claude_session_id # None)
          => db_sessions'[s].claude_session_id # None]_vars

\* the session holds h1 from its first run, and its second run has taken an
\* init message that carries no session id
C28_Witness ==
  \E s \in Sids, r \in Rids :
    /\ s \in DOMAIN sessions
    /\ sessions[s].claude_session_id = "h1"
    /\ db_sessions[s].claude_session_id = "h1"
    /\ run[r].session_id = s
    /\ out = << MessageEvent(s, Msg("system", "init", None), r) >>
\* the transcript of s holds an init message that carried a session id of the
\* engine: such a message has been sent for s
InitSent(s) ==
  \E i \in DOMAIN Rows(Store, s) :
     Rows(Store, s)[i].type = "system" /\ Rows(Store, s)[i].value # None

\* C29: when a run's init message carries a session id of the engine, the
\* session holds that id, in memory and in its row, when the message is sent
\* as stream.message; and once such a message has been sent for a session,
\* the session holds an id and session.continue for it does not fail with
\* "Session has no resume id yet.", also after the run has been aborted.
C29_HandleStoredAtInit ==
  [][/\ \A r \in Rids, h \in ResumeHandles \ {None} :
          (RunInit(r, h) /\ out' # << >>)
          => /\ sent'[1].event = MessageEvent(run[r].session_id, Msg("system", "init", h), r)
             /\ sent'[1].stored
             /\ sessions'[run[r].session_id].claude_session_id = h
             /\ db_sessions'[run[r].session_id].claude_session_id = h
     /\ \A s \in Sids :
          (s \in DOMAIN sessions' /\ InitSent(s)')
          => /\ sessions'[s].claude_session_id # None
             /\ db_sessions'[s].claude_session_id # None
     /\ \A s \in Sids, p \in ContinuePrompts :
          (s \in DOMAIN sessions /\ InitSent(s) /\ SessionContinue(s, p))
          => /\ \A i \in DOMAIN out' : out'[i].type # "runner.error"
             /\ s \in DOMAIN runners' /\ run'[runners'[s]].task = "ready"]_vars

\* the first run was stopped right after its init message (it took no
\* further message), and session.continue has then started the second run
C29_Witness ==
  \E s \in Sids, r1, r2 \in Rids :
    /\ r1 # r2
    /\ run[r1].session_id = s /\ run[r1].abort_event /\ run[r1].events = 1
    /\ Rows(Store, s) = << UserPromptMsg("p1"), Msg("system", "init", "h1"),
                           UserPromptMsg("p2") >>
    /\ runners[s] = r2 /\ run[r2].task = "ready"
    /\ out = << StatusEvent(s, RUNNING, None, 0), UserPromptEvent(s, "p2") >>

\* one of the six operations of the store is called
StoreOperation ==
  \/ \E t \in Titles : StoreCreate(t)
  \/ \E s \in Sids, u \in StoreUpdates : StoreUpdate(s, u)
  \/ \E s \in Sids, m \in StoreMessages : StoreRecord(s, m)
  \/ \E s \in Sids : StoreDelete(s)
  \/ StoreList
  \/ \E s \in Sids : StoreHistory(s)

\* C30: an operation of the store (create, update, append message, list,
\* history, delete) called while the store is not initialized raises the
\* "not initialized" error and changes neither the sessions in memory nor
\* the tables.
C30_UninitializedStoreRefuses ==
  [][(~db /\ StoreOperation)
       => /\ raised' = NotInitialized
          /\ UNCHANGED << sessions, db_sessions, db_messages >>]_vars

SessionFields ==
  {"title", "claude_session_id", "status", "cwd", "allowed_tools", "last_prompt"}

\* C31: when a closed store is initialized again (in the same process or in
\* a new one), the sessions in memory are exactly the rows of table sessions,
\* each with the row's status, title, cwd, allowed_tools, last_prompt and
\* claude_session_id, and a session in memory carries no messages.
C31_RestartLoadsRows ==
  [][(~db /\ (StoreInitialize \/ StoreRestart))
       => /\ DOMAIN sessions' = DOMAIN db_sessions'
          /\ \A s \in DOMAIN sessions' :
                /\ DOMAIN sessions'[s] = SessionFields
                /\ \A f \in SessionFields : sessions'[s][f] = db_sessions'[s][f]]_vars

\* the store has been opened a second time and holds a session that is
\* completed, has a handle of the engine and a transcript
C31_Witness ==
  /\ db /\ boots = 2
  /\ \E s \in DOMAIN sessions :
        /\ sessions[s].status = COMPLETED
        /\ sessions[s].claude_session_id = "h1"
        /\ Len(Table(Store, s)) > 0

\* C33: a run has at most one completed/error session.status event
\* broadcast, whatever commands for its session come between its steps.
C33_OneTerminalStatusPerRun ==
  \A r \in Rids : terminal[r] <= 1

\* C40: the handler's _runners holds an entry for a session only while the
\* run it names is active (its task has not finished), so a later
\* session.stop or permission.response finds no run to act on.
C40_RegistryHoldsOnlyActiveRuns ==
  \A s \in DOMAIN runners : run[runners[s]].task # "done"

\* the run r is active: its task has been created and has not finished
ActiveRun(r) == run[r].task \in {"ready", "recv", "closing"}

\* C39: while the server is up and no step is in flight, a session whose
\* status is running has an active run, also after a shutdown and a restart
\* that loads the sessions from the database.
C39_RunningSessionHasRun ==
  db => \A s \in DOMAIN sessions :
          sessions[s].status = RUNNING
          => \E r \in Rids : run[r].session_id = s /\ ActiveRun(r)

\* the ids of the rows of table messages that belong to session s
IdsOf(st, s) == {Table(st, s)[i].id : i \in DOMAIN Table(st, s)}

\* C37: a message of a run that is recorded for its session b, which exists
\* and holds no message with that id, is in b's history afterwards, whatever
\* the other sessions hold, also when another session holds a message with
\* the same id.
C37_TranscriptsIndependent ==
  [][\A r \in Rids, m \in StoreMessages :
       (/\ RunMessage(r, m)
        /\ ~run[r].abort_event
        /\ run[r].session_id \in DOMAIN sessions
        /\ MessageId(Store, run[r].session_id, m) \notin IdsOf(Store, run[r].session_id))
       => \E i \in DOMAIN Rows(Store', run[r].session_id) :
             Rows(Store', run[r].session_id)[i] = m]_vars
\* C32: when a permission.request is sent to a client, the slot for its
\* (sessionId, toolUseId) is already in the handler's registry of pending
\* permissions, so an answer that follows the event at once finds it.
C32_SlotRegisteredBeforeRequestSent ==
  [][\A i \in DOMAIN sent' :
       (sent'[i].event.type = "permission.request" /\ sent'[i].to # {})
         => << sent'[i].event.session_id, sent'[i].event.body >> \in pending_permissions']_vars

C35_NothingSentAfterDeleted ==
  [][\A i \in DOMAIN sent' :
       (sent'[i].event.type \in GuardedTypes /\ sent'[i].to # {})
         => sent'[i].event.session_id \notin told_deleted]_vars

\* C36: when every command has completed, no run that has not been aborted
\* is active for a session that is absent from the registry of sessions,
\* also when session.delete was handled while a session.start or
\* session.continue of the same session was suspended.
C36_NoRunForAbsentSession ==
  (\A c \in Conns : Cmd(c).op = "idle")
    => \A r \in Rids : (ActiveRun(r) /\ ~run[r].cancel /\ ~run[r].abort_event)
                          => run[r].session_id \in DOMAIN sessions

\* no command and no callback of a run is between two of its steps
NothingInFlight ==
  /\ \A c \in Conns : Cmd(c).op = "idle"
  /\ \A r \in Rids : Cb(r).pc = "none"

\* C38: whenever no command and no run step is in flight, every message in
\* table messages belongs to a session that has a row in table sessions.
C38_NoOrphanMessages ==
  NothingInFlight => \A s \in DOMAIN db_messages : s \in DOMAIN db_sessions

\* a session.delete has been handled between the steps of a recording (the
\* event was dropped after the delete) and nothing is in flight
C38_Witness ==
  /\ NothingInFlight
  /\ \E i \in DOMAIN dropped :
        /\ dropped[i].type \in {"stream.user_prompt", "stream.message"}
        /\ dropped[i].session_id \in told_deleted
        /\ dropped[i].session_id \notin DOMAIN db_sessions

====
